---- MODULE Spec2Model ----
(***************************************************************************)
(* Model of the virtual frame-divided cube of ORB (orb/core.py: Tools,     *)
(* Cube, HDFCube; orb/cube.py: FDCube, HDFCube).                            *)
(*                                                                         *)
(* Conventions                                                             *)
(*  - a 2D array is a record [n0, n1, px]: n0 and n1 are the lengths of    *)
(*    axis 0 and axis 1 and px maps <<i, j>> to the pixel value;           *)
(*  - pixel values are non-negative integers; after _bin_image with        *)
(*    binning b they are counted in units of 1/b^2 (the block sum), which  *)
(*    is exact because b^2 is a power of two in the model;                 *)
(*  - a python slice(start, stop, 1) is a record [start, stop].            *)
(***************************************************************************)
EXTENDS Integers, Sequences, FiniteSets, TLC

(***************************************************************************)
(* Bounds of the model.                                                    *)
(***************************************************************************)
DimX == 2          \* cube extent along x (frame 0 after decoding/binning)
DimY == 2          \* cube extent along y
DimZ == 4          \* number of frames of the cube
MaxCpus == 3       \* largest worker count of a pool
MaxCalls == 2      \* number of read calls made on one cube

(***************************************************************************)
(* Program constants.                                                      *)
(***************************************************************************)
Float32Mantissa == 24   \* significand bits of np.float32 (write_fits)

NaN == 0 - 1            \* np.nan: never equal to a pixel value (all >= 0)

Max(a, b) == IF a >= b THEN a ELSE b
Min(a, b) == IF a <= b THEN a ELSE b

Frames == 0 .. (DimZ - 1)

(***************************************************************************)
(* Arrays                                                                  *)
(***************************************************************************)
Arr(n0, n1, F(_, _)) ==
    [n0 |-> n0, n1 |-> n1,
     px |-> [p \in (0 .. (n0 - 1)) \X (0 .. (n1 - 1)) |-> F(p[1], p[2])]]

\* ndarray.transpose() of a 2D array
Transpose(a) == Arr(a.n1, a.n0, LAMBDA i, j : a.px[<<j, i>>])

Slice(s, e) == [start |-> s, stop |-> e]

\* Normalisation of one bound of a python slice on an axis of length n
\* (slice.indices): negative bounds count from the end, every bound is
\* clamped to [0, n].
NpNorm(i, n) == IF i < 0 THEN Max(i + n, 0) ELSE Min(i, n)

NpLen(sl, n) == Max(NpNorm(sl.stop, n) - NpNorm(sl.start, n), 0)

\* a[s0, s1] on a numpy 2D array (and on an h5py dataset)
NpSection(a, s0, s1) ==
    LET b0 == NpNorm(s0.start, a.n0)
        b1 == NpNorm(s1.start, a.n1)
    IN Arr(NpLen(s0, a.n0), NpLen(s1, a.n1),
           LAMBDA i, j : a.px[<<b0 + i, b1 + j>>])

\* pyfits Section: the bounds are normalised as above but a slice whose
\* normalised stop lies before its start is refused.
SectionRefuses(a, s0, s1) ==
    \/ NpNorm(s0.stop, a.n0) < NpNorm(s0.start, a.n0)
    \/ NpNorm(s1.stop, a.n1) < NpNorm(s1.start, a.n1)

\* np.squeeze applied to a shape: the axes of length 1 are removed
RECURSIVE Squeeze(_)
Squeeze(shape) ==
    IF shape = <<>> THEN <<>>
    ELSE IF Head(shape) = 1 THEN Squeeze(Tail(shape))
         ELSE <<Head(shape)>> \o Squeeze(Tail(shape))

(***************************************************************************)
(* Tools._bin_image: block sums over complete b x b blocks; incomplete     *)
(* trailing rows and columns are dropped.  binning = 1 returns the input.  *)
(* The division by binning**2 scales by a power of two when binning is 2:  *)
(* it is exact and keeps the significand, so a binned pixel is held as its *)
(* numerator, the block sum.                                               *)
(***************************************************************************)
BlockSum(a, b, i, j) ==
    LET RECURSIVE Acc(_)
        Acc(k) == IF k = b * b THEN 0
                  ELSE a.px[<<b * i + (k \div b), b * j + (k % b)>>]
                       + Acc(k + 1)
    IN Acc(0)

bin_image(a, binning) ==
    IF binning = 1 THEN a
    ELSE Arr(a.n0 \div binning, a.n1 \div binning,
             LAMBDA i, j : BlockSum(a, binning, i, j))

(***************************************************************************)
(* Tools.write_fits stores float64 data as float32; Tools.read_fits        *)
(* converts back to float64.  Narrow is the value that survives: v rounded *)
(* to Float32Mantissa significant bits, ties to even.                      *)
(***************************************************************************)
RECURSIVE Quantum(_)
Quantum(v) == IF v < 2 ^ Float32Mantissa THEN 1 ELSE 2 * Quantum(v \div 2)

Narrow(v) ==
    IF v = NaN THEN NaN
    ELSE LET q == Quantum(v)
             r == v % q
             lo == v - r
         IN IF 2 * r < q THEN lo
            ELSE IF 2 * r > q THEN lo + q
            ELSE IF (lo \div q) % 2 = 0 THEN lo ELSE lo + q

NarrowArr(a) == Arr(a.n0, a.n1, LAMBDA i, j : Narrow(a.px[<<i, j>>]))

(***************************************************************************)
(* Index keys.  A key is an integer or a slice whose start and stop may be *)
(* None (sNone, eNone).                                                    *)
(***************************************************************************)
IntKey(i) ==
    [int |-> TRUE, start |-> i, stop |-> i, sNone |-> FALSE, eNone |-> FALSE]

SliceKey(s, sNone, e, eNone) ==
    [int |-> FALSE, start |-> IF sNone THEN 0 ELSE s,
     stop |-> IF eNone THEN 0 ELSE e, sNone |-> sNone, eNone |-> eNone]

FullKey == SliceKey(0, TRUE, 0, TRUE)

FromTo(s, e) == SliceKey(s, FALSE, e, FALSE)

SliceError == [err |-> TRUE, start |-> 0, stop |-> 0]

SliceOk(s, e) == [err |-> FALSE, start |-> s, stop |-> e]

\* Cube._get_default_slice (orb/core.py): an integer is taken as is, a
\* given start must lie in [0, _max], a given stop in [0, _max] and after
\* the start.
CoreDefaultSlice(key, max) ==
    IF key.int THEN SliceOk(key.start, key.start + 1)
    ELSE IF ~key.sNone /\ ~(key.start >= 0 /\ key.start <= max)
         THEN SliceError
    ELSE LET slice_min == IF key.sNone THEN 0 ELSE key.start
         IN IF key.eNone THEN SliceOk(slice_min, max)
            ELSE IF key.stop >= 0 /\ key.stop <= max /\ key.stop > slice_min
                 THEN SliceOk(slice_min, key.stop)
                 ELSE SliceError

\* FDCube._get_default_slice (orb/cube.py): as above, but a negative stop
\* is first counted from the end of the axis.
FDDefaultSlice(key, max) ==
    IF key.int THEN SliceOk(key.start, key.start + 1)
    ELSE IF ~key.sNone /\ ~(key.start >= 0 /\ key.start <= max)
         THEN SliceError
    ELSE LET slice_min == IF key.sNone THEN 0 ELSE key.start
         IN IF key.eNone THEN SliceOk(slice_min, max)
            ELSE LET slice_stop == IF key.stop < 0 THEN max + key.stop
                                   ELSE key.stop
                 IN IF slice_stop <= max /\ slice_stop > slice_min
                    THEN SliceOk(slice_min, slice_stop)
                    ELSE SliceError

get_default_slice(k, key, max) ==
    IF k = "FDCube" THEN FDDefaultSlice(key, max)
    ELSE CoreDefaultSlice(key, max)

(***************************************************************************)
(* State                                                                   *)
(***************************************************************************)
VARIABLES
    kind,          \* class of the cube: "Cube", "HDFCube" (core.py),
                   \* "FDCube", "NewHDFCube" (cube.py)
    mask_exists,   \* Cube._mask_exists: frame 0 has a companion mask file
    prebinning,    \* Cube._prebinning
    ncpus,         \* worker count of the pools (job_server.get_ncpus())
    parallel,      \* _parallel_access_to_data
    pixel_base,    \* smallest pixel value of the raw frames
    frame_files,   \* the raw frame files: [present, nx, ny] per frame
    strict,        \* the FITS library refuses a reversed section
    ncalls,        \* number of read calls made so far
    stored,        \* the STORED/ directory: binned frame file per frame
    return_mask,   \* Cube._return_mask
    pc,            \* position of the read call
    call,          \* the last call: [name, mask, key]
    x_slice, y_slice, z_slice,   \* resolved slices of the call
    data,          \* frames stacked so far along z
    ik,            \* loop variable of the batch loop
    nbatch,        \* local ncpus: size of the batch
    jobs,          \* jobs of the batch, in submission order
    added_data,    \* frames of the batch collected so far
    inflight,      \* jobs submitted by the call and not collected yet
    pool,          \* job server of the call: "none", "alive", "closed"
    result,        \* what the call returned
    hist,          \* per frame, what the reads of that frame did
    miss_read,     \* per frame, the last read computed from the raw file
    hit_read,      \* per frame, the last read served from STORED/
    h5,            \* the container file at the path of the writable cube
    obj,           \* the writable cube object: "none", "open", "failed"
    written,       \* per frame, the value last assigned through the cube
    hdf,           \* the container file (old architecture) an HDFCube opens
    dest,          \* per candidate export path, the file at that path
    trace,         \* the steps an export has made, in order
    fn             \* the last call of a function of Tools: [name, arg, out]

cfg_vars == <<kind, mask_exists, prebinning, ncpus, parallel, pixel_base,
              frame_files, strict>>

call_vars == <<call, x_slice, y_slice, z_slice>>

loop_vars == <<ik, nbatch, jobs, added_data, inflight>>

fs_vars == <<stored, hist, miss_read, hit_read>>

tool_vars == <<hdf, dest, trace, fn>>

io_vars == <<h5, obj, written, tool_vars>>

vars == <<cfg_vars, call_vars, loop_vars, fs_vars, return_mask, pc, data,
          pool, result, ncalls, io_vars>>

(***************************************************************************)
(* Files                                                                   *)
(***************************************************************************)
\* Content of the primary HDU of frame f, in file order (axis 0 is y).
\* Every pixel of every frame has a value of its own.
RawData(f) ==
    Arr(frame_files[f].ny, frame_files[f].nx,
        LAMBDA j, i : pixel_base + 100 * f + 10 * i + j)

\* Content of the companion mask file (<name>_mask.fits) of frame f
MaskData(f) ==
    Arr(frame_files[f].ny, frame_files[f].nx,
        LAMBDA j, i : (f + i + j) % 2)

NoFile == [n0 |-> 0 - 1, n1 |-> 0 - 1, px |-> <<>>]

NoArray == NoFile

\* a (w, h) array of not-a-number
NaNs(w, h) == Arr(w, h, LAMBDA i, j : NaN)

\* image_list[frame_index] on the numpy array of paths: a negative index
\* counts from the end, anything outside raises IndexError
ListIndexOk(i) == i >= 0 - DimZ /\ i < DimZ

ListIndex(i) == IF i < 0 THEN i + DimZ ELSE i

(***************************************************************************)
(* Cube._get_frame_section / FDCube._get_frame_section, image mode         *)
(* 'classic', FITS frames.  rm is self._return_mask in the process that    *)
(* runs the method.  The outcome is a record:                               *)
(*   ok       the method returned (section) or raised                      *)
(*   frame    the frame whose file was addressed                           *)
(*   opened   the frame file opened: "none", "data" or "mask"              *)
(*   decoded  the pixels of the frame file were decoded (and binned)       *)
(*   hit      the binned frame was read from STORED/                       *)
(*   store    the content written to STORED/ (NoFile: nothing written)     *)
(***************************************************************************)
\* os.path.exists(stored_file_path)
MutStoredExists(f) == FALSE

StoredExists(f) == stored[f] # NoFile

Outcome(ok, f, section, opened, decoded, hit, store) ==
    [ok |-> ok, frame |-> f, section |-> section, opened |-> opened,
     decoded |-> decoded, hit |-> hit, store |-> store]

FrameSection(k, xs, ys, frame_index, rm) ==
    IF ~ListIndexOk(frame_index)
    THEN Outcome(FALSE, 0, NoArray, "none", FALSE, FALSE, NoFile)
    ELSE
    LET f == ListIndex(frame_index)
        useMask == k = "Cube" /\ rm
        slot == IF useMask THEN "mask" ELSE "data"
        \* read_fits(..., return_hdu_only=True, return_mask=...)
        canOpen == frame_files[f].present /\ (useMask => mask_exists)
        hdu == IF useMask THEN MaskData(f) ELSE RawData(f)
        binned == k = "Cube" /\ prebinning > 1
        hit == binned /\ StoredExists(f)
        \* read_fits(stored_file_path): transposed back, squeezed
        cached == Transpose(stored[f])
        squeezed == cached.n0 = 1 \/ cached.n1 = 1
        image == IF hit THEN cached
                 ELSE bin_image(Transpose(hdu), prebinning)
    IN IF ~canOpen
       THEN Outcome(FALSE, f, NoArray, "none", FALSE, FALSE, NoFile)
       ELSE IF binned
       THEN IF hit /\ squeezed
            THEN Outcome(FALSE, f, NoArray, slot, FALSE, TRUE, NoFile)
            ELSE Outcome(TRUE, f, NpSection(image, xs, ys), slot, ~hit, hit,
                         Transpose(NarrowArr(image)))
       ELSE IF strict /\ SectionRefuses(hdu, ys, xs)
            THEN Outcome(FALSE, f, NoArray, slot, FALSE, FALSE, NoFile)
            ELSE Outcome(TRUE, f, Transpose(NpSection(hdu, ys, xs)), slot,
                         TRUE, FALSE, NoFile)

(***************************************************************************)
(* Effects of one run of _get_frame_section on the file system and on the  *)
(* history of the call.                                                    *)
(***************************************************************************)
NoRead == [valid |-> FALSE, frame |-> 0, xs |-> Slice(0, 0),
           ys |-> Slice(0, 0), rm |-> FALSE, section |-> NoArray]

ReadOf(out, xs, ys, rm) ==
    [valid |-> TRUE, frame |-> out.frame, xs |-> xs, ys |-> ys, rm |-> rm,
     section |-> out.section]

Touch(out, xs, ys, rm) ==
    /\ stored' = IF out.store # NoFile
                 THEN [stored EXCEPT ![out.frame] = out.store]
                 ELSE stored
    /\ hist' = [hist EXCEPT
                  !.opened = IF out.opened = "data" THEN @ \cup {out.frame}
                             ELSE @,
                  !.decoded = IF out.decoded THEN @ \cup {out.frame} ELSE @,
                  !.hit = IF out.hit THEN @ \cup {out.frame} ELSE @,
                  !.done = IF out.ok THEN @ \cup {out.frame} ELSE @]
    /\ miss_read' = IF out.ok /\ out.decoded /\ prebinning > 1
                    THEN ReadOf(out, xs, ys, rm) ELSE miss_read
    /\ hit_read' = IF out.ok /\ out.hit
                   THEN ReadOf(out, xs, ys, rm) ELSE hit_read

(***************************************************************************)
(* Initial state: a cube has been constructed from a manifest of DimZ FITS *)
(* frames.  The constructor decodes frame 0 only: it defines (dimx, dimy), *)
(* so frame 0 exists and has the cube's shape; the other frames were never *)
(* looked at, and one of them may be missing or of another shape.          *)
(***************************************************************************)
GoodFrame == [present |-> TRUE, nx |-> DimX * prebinning,
              ny |-> DimY * prebinning]

OddFrames ==
    { [present |-> FALSE, nx |-> DimX * prebinning, ny |-> DimY * prebinning],
      [present |-> TRUE, nx |-> (DimX - 1) * prebinning,
       ny |-> DimY * prebinning],
      [present |-> TRUE, nx |-> (DimX + 1) * prebinning,
       ny |-> DimY * prebinning] }

\* every frame has the cube's shape / one later frame is odd
GoodFrames == [f \in Frames |-> GoodFrame]

FrameSets ==
    {GoodFrames} \cup
    { [f \in Frames |-> IF f = DimZ - 2 THEN odd ELSE GoodFrame] :
        odd \in OddFrames }

\* a path where no file exists
NoContainer == [exists |-> FALSE, level2 |-> FALSE, shape |-> <<>>,
                frames |-> <<>>, sets |-> <<>>, attrs |-> <<>>]

NoValue == 0 - 2

NoHist == [before |-> {}, opened |-> {}, decoded |-> {}, hit |-> {},
           done |-> {}]

NoResult == [status |-> "none", shape |-> <<>>, frames |-> <<>>]

IdleCall == [name |-> "none", mask |-> FALSE,
             key |-> <<FullKey, FullKey, FullKey>>]

\* a container of the old architecture: the attributes dimx, dimy, dimz,
\* the frame groups present (frame00000, ...) and the shape of the data of
\* frame00000
OldContainer(dimx, dimy, dimz, slots, shape0) ==
    [dimx |-> dimx, dimy |-> dimy, dimz |-> dimz, slots |-> slots,
     shape0 |-> shape0]

NoCall == [name |-> "none", arg |-> <<>>, out |-> <<>>]

\* nothing is exported, no container is opened, no function is called
InitTools ==
    /\ hdf = OldContainer(DimX, DimY, DimZ, Frames, <<DimX, DimY>>)
    /\ dest = <<>>
    /\ trace = <<>>
    /\ fn = NoCall

\* no container file is being written
InitIO ==
    /\ h5 = NoContainer
    /\ obj = "none"
    /\ written = [f \in Frames |-> NoValue]
    /\ InitTools

\* no read has been made
InitRead ==
    /\ return_mask = FALSE
    /\ ncalls = 0
    /\ pc = "idle"
    /\ call = IdleCall
    /\ x_slice = Slice(0, 0) /\ y_slice = Slice(0, 0) /\ z_slice = Slice(0, 0)
    /\ data = <<>>
    /\ ik = 0 /\ nbatch = 0 /\ jobs = <<>> /\ added_data = <<>>
    /\ inflight = 0
    /\ pool = "none"
    /\ result = NoResult
    /\ hist = NoHist
    /\ miss_read = NoRead /\ hit_read = NoRead
    /\ stored = [f \in Frames |-> NoFile]

InitCall ==
    /\ InitRead
    /\ InitIO

\* One freshly constructed cube of any class.
Init ==
    /\ kind \in {"Cube", "FDCube", "HDFCube", "NewHDFCube"}
    /\ strict = FALSE
    /\ pixel_base = 0
    /\ prebinning \in IF kind = "Cube" THEN {1, 2} ELSE {1}
    /\ mask_exists \in IF kind = "FDCube" THEN {FALSE} ELSE BOOLEAN
    /\ parallel \in IF kind = "Cube" THEN {TRUE}
                    ELSE IF kind = "FDCube" THEN BOOLEAN ELSE {FALSE}
    /\ ncpus \in IF parallel THEN 1 .. MaxCpus ELSE {1}
    /\ frame_files \in IF kind = "NewHDFCube" THEN {GoodFrames}
                       ELSE FrameSets
    /\ InitCall

(***************************************************************************)
(* Cube.__getitem__ / FDCube.__getitem__, up to the return of a single     *)
(* frame or to the creation of the job server, entered directly            *)
(* (name = "getitem") or through get_data, get_data_frame, get_all_data,   *)
(* get_column_data, which set _return_mask when mask is asked, call        *)
(* self[...] and reset _return_mask when that call returns.                *)
(***************************************************************************)
NotInCall == pc \in {"idle", "returned", "raised"}

Raise ==
    /\ pc' = "raised"
    /\ result' = [status |-> "error", shape |-> <<>>, frames |-> <<>>]

Return(shape, frames) ==
    /\ pc' = "returned"
    /\ result' = [status |-> "array", shape |-> shape, frames |-> frames]

Call(name, mask, kx, ky, kz) ==
    LET flag == IF mask THEN TRUE ELSE return_mask
        xs == get_default_slice(kind, kx, DimX)
        ys == get_default_slice(kind, ky, DimY)
        zs == get_default_slice(kind, kz, DimZ)
        x == Slice(xs.start, xs.stop)
        y == Slice(ys.start, ys.stop)
        out == FrameSection(kind, x, y, zs.start, flag)
        fresh == [hist EXCEPT !.before = hist.done, !.opened = {},
                              !.decoded = {}, !.hit = {}]
    IN
    /\ kind \in {"Cube", "FDCube"}
    /\ NotInCall
    /\ ncalls' = ncalls + 1
    /\ call' = [name |-> name, mask |-> mask, key |-> <<kx, ky, kz>>]
    /\ pool' = "none"
    /\ nbatch' = 0 /\ jobs' = <<>> /\ added_data' = <<>> /\ inflight' = 0
    /\ UNCHANGED <<cfg_vars, io_vars>>
    /\ IF kind = "Cube" /\ flag /\ ~mask_exists
       THEN \* "No mask found with data, cannot return mask"
            /\ Raise
            /\ return_mask' = flag
            /\ hist' = fresh
            /\ data' = <<>>
            /\ ik' = 0
            /\ x_slice' = Slice(0, 0) /\ y_slice' = Slice(0, 0)
            /\ z_slice' = Slice(0, 0)
            /\ UNCHANGED <<stored, miss_read, hit_read>>
       ELSE IF xs.err \/ ys.err \/ zs.err
       THEN \* "Index error: list index out of range"
            /\ Raise
            /\ return_mask' = flag
            /\ hist' = fresh
            /\ data' = <<>>
            /\ ik' = 0
            /\ x_slice' = Slice(0, 0) /\ y_slice' = Slice(0, 0)
            /\ z_slice' = Slice(0, 0)
            /\ UNCHANGED <<stored, miss_read, hit_read>>
       ELSE /\ x_slice' = x /\ y_slice' = y
            /\ z_slice' = Slice(zs.start, zs.stop)
            /\ ik' = zs.start + 1
            /\ stored' = IF out.store # NoFile
                         THEN [stored EXCEPT ![out.frame] = out.store]
                         ELSE stored
            /\ hist' = [fresh EXCEPT
                          !.opened = IF out.opened = "data" THEN {out.frame}
                                     ELSE {},
                          !.decoded = IF out.decoded THEN {out.frame} ELSE {},
                          !.hit = IF out.hit THEN {out.frame} ELSE {},
                          !.done = IF out.ok THEN @ \cup {out.frame} ELSE @]
            /\ miss_read' = IF out.ok /\ out.decoded /\ prebinning > 1
                            THEN ReadOf(out, x, y, kind = "Cube" /\ flag)
                            ELSE miss_read
            /\ hit_read' = IF out.ok /\ out.hit
                           THEN ReadOf(out, x, y, kind = "Cube" /\ flag)
                           ELSE hit_read
            /\ IF ~out.ok
               THEN /\ Raise
                    /\ return_mask' = flag
                    /\ data' = <<>>
               ELSE \* _get_frame_section ends with self._return_mask = False
                    /\ return_mask' = FALSE
                    /\ data' = <<out.section>>
                    /\ IF zs.stop = zs.start + 1
                       THEN Return(<<out.section.n0, out.section.n1>>,
                                   <<out.section>>)
                       ELSE /\ pc' = IF parallel THEN "pool" ELSE "seq"
                            /\ result' = NoResult

(***************************************************************************)
(* The parallel loop of __getitem__.                                       *)
(***************************************************************************)
Width == x_slice.stop - x_slice.start

Height == y_slice.stop - y_slice.start

\* job_server, ncpus = self._init_pp_server()
InitPool ==
    /\ pc = "pool"
    /\ pool' = "alive"
    /\ nbatch' = ncpus
    /\ pc' = "loop"
    /\ UNCHANGED <<io_vars, cfg_vars, ncalls,
                   call_vars, fs_vars, return_mask, data,
                   ik, jobs, added_data, inflight, result>>

\* size of the batch that starts at frame i when the pool has n workers:
\* "No more jobs than frames to compute"
MutBatchSize(i, n, stop) == n

MutBatchRest(i, n, stop) == stop - i

BatchSize(i, n, stop) == IF i + n >= stop THEN stop - i ELSE n

\* head of "for ik in range(z_slice.start + 1, z_slice.stop, ncpus)":
\* a new batch is opened, or the loop ends
StartBatch ==
    /\ pc = "loop"
    /\ ik < z_slice.stop
    /\ nbatch' = BatchSize(ik, nbatch, z_slice.stop)
    /\ jobs' = <<>>
    /\ added_data' = <<>>
    /\ pc' = "submit"
    /\ UNCHANGED <<io_vars, cfg_vars, ncalls,
                   call_vars, fs_vars, return_mask, data,
                   ik, pool, inflight, result>>

\* job_server.submit(self._get_frame_section, (x_slice, y_slice, ik+ijob)):
\* the cube is pickled with the arguments, the worker runs on that copy
Submit ==
    /\ pc = "submit"
    /\ Len(jobs) < nbatch
    /\ jobs' = Append(jobs, [frame |-> ik + Len(jobs), rm |-> return_mask,
                             state |-> "queued", failed |-> FALSE,
                             rank |-> 0, section |-> NoArray])
    /\ inflight' = inflight + 1
    /\ pc' = IF Len(jobs) + 1 = nbatch THEN "collect" ELSE "submit"
    /\ UNCHANGED <<io_vars, cfg_vars, ncalls,
                   call_vars, fs_vars, return_mask, data,
                   ik, nbatch, added_data, pool, result>>

\* number of jobs of the batch that have run
Finished == Cardinality({i \in 1 .. Len(jobs) : jobs[i].state # "queued"})

\* A worker runs job j.  An exception in the worker is printed by the job
\* server and the job yields None.
WorkerRun(j) ==
    /\ j \in 1 .. Len(jobs)
    /\ jobs[j].state = "queued"
    /\ pool = "alive"
    /\ LET out == FrameSection(kind, x_slice, y_slice, jobs[j].frame,
                               jobs[j].rm)
       IN /\ Touch(out, x_slice, y_slice, kind = "Cube" /\ jobs[j].rm)
          /\ jobs' = [jobs EXCEPT ![j] = [@ EXCEPT !.state = "finished",
                                                   !.failed = ~out.ok,
                                                   !.rank = Finished + 1,
                                                   !.section = out.section]]
    /\ UNCHANGED <<io_vars, cfg_vars, ncalls,
                   call_vars, return_mask, pc, data, ik,
                   nbatch, added_data, inflight, pool, result>>

\* added_data[:,:,ijob] = value, added_data being np.empty((w, h, n)):
\* None is stored as not-a-number, an array is broadcast to (w, h) or the
\* assignment raises ValueError
Assignable(a, w, h) ==
    /\ a.n0 = w \/ a.n0 = 1
    /\ a.n1 = h \/ a.n1 = 1

Broadcast(a, w, h) ==
    Arr(w, h, LAMBDA i, j : a.px[<<IF a.n0 = 1 THEN 0 ELSE i,
                                   IF a.n1 = 1 THEN 0 ELSE j>>])

\* "for ijob, job in jobs: added_data[:,:,ijob] = job()": job() blocks
\* until the job has finished
MutNextJob ==
    LET ready == {j \in 1 .. Len(jobs) : jobs[j].state = "finished"}
    IN IF ready = {} THEN Len(added_data) + 1
       ELSE CHOOSE j \in ready : \A i \in ready : i <= j

NextJob == Len(added_data) + 1

Collect ==
    /\ pc = "collect"
    /\ Len(added_data) < nbatch
    /\ LET j == NextJob
       IN /\ jobs[j].state = "finished"
          /\ jobs' = [jobs EXCEPT ![j] = [@ EXCEPT !.state = "collected"]]
          /\ inflight' = inflight - 1
          /\ IF jobs[j].failed
             THEN /\ added_data' = Append(added_data, NaNs(Width, Height))
                  /\ UNCHANGED <<pc, result>>
             ELSE IF Assignable(jobs[j].section, Width, Height)
             THEN /\ added_data' = Append(added_data,
                                    Broadcast(jobs[j].section, Width, Height))
                  /\ UNCHANGED <<pc, result>>
             ELSE /\ Raise
                  /\ UNCHANGED added_data
    /\ UNCHANGED <<io_vars, cfg_vars, ncalls,
                   call_vars, fs_vars, return_mask, data,
                   ik, nbatch, pool>>

\* data = np.dstack((data, added_data)); next ik
Stack ==
    /\ pc = "collect"
    /\ Len(added_data) = nbatch
    /\ IF data[1].n0 = Width /\ data[1].n1 = Height
       THEN /\ data' = data \o added_data
            /\ ik' = ik + ncpus
            /\ pc' = "loop"
            /\ UNCHANGED result
       ELSE /\ Raise
            /\ UNCHANGED <<data, ik>>
    /\ UNCHANGED <<io_vars, cfg_vars, ncalls,
                   call_vars, fs_vars, return_mask, nbatch,
                   jobs, added_data, inflight, pool>>

\* self._close_pp_server(job_server); return np.squeeze(data)
ClosePool ==
    /\ pc = "loop"
    /\ ik >= z_slice.stop
    /\ pool' = "closed"
    /\ Return(Squeeze(<<data[1].n0, data[1].n1, Len(data)>>), data)
    /\ UNCHANGED <<io_vars, cfg_vars, ncalls,
                   call_vars, loop_vars, fs_vars, return_mask,
                   data>>

(***************************************************************************)
(* The sequential loop of __getitem__ (_parallel_access_to_data is off).   *)
(***************************************************************************)
SeqRead ==
    /\ pc = "seq"
    /\ ik < z_slice.stop
    /\ LET out == FrameSection(kind, x_slice, y_slice, ik, return_mask)
       IN /\ Touch(out, x_slice, y_slice, kind = "Cube" /\ return_mask)
          /\ IF out.ok /\ out.section.n0 = data[1].n0
                       /\ out.section.n1 = data[1].n1
             THEN /\ data' = Append(data, out.section)
                  /\ ik' = ik + 1
                  /\ UNCHANGED <<pc, result>>
             ELSE /\ Raise
                  /\ UNCHANGED <<data, ik>>
    /\ UNCHANGED <<io_vars, cfg_vars, ncalls,
                   call_vars, return_mask, nbatch, jobs,
                   added_data, inflight, pool>>

SeqReturn ==
    /\ pc = "seq"
    /\ ik >= z_slice.stop
    /\ Return(Squeeze(<<data[1].n0, data[1].n1, Len(data)>>), data)
    /\ UNCHANGED <<io_vars, cfg_vars, ncalls,
                   call_vars, loop_vars, fs_vars, return_mask,
                   data, pool>>

(***************************************************************************)
(* Container cubes.  The frames of a container are the datasets            *)
(* frameNNNNN/data and frameNNNNN/mask (core.py) or the planes of the      *)
(* dataset 'data' (cube.py); they hold the pixels of the frame files in    *)
(* (x, y) order.                                                           *)
(***************************************************************************)
HdfFrame(f, slot) ==
    Transpose(IF slot = "mask" THEN MaskData(f) ELSE RawData(f))

\* data[0:w, 0:h, ik - z_slice.start] = f[path(ik, mask)][x_slice, y_slice]
\* for ik in range(z_slice.start, z_slice.stop)
RECURSIVE HdfLoad(_, _, _, _, _)
HdfLoad(x, y, i, stop, flag) ==
    IF i >= stop THEN [ok |-> TRUE, frames |-> <<>>]
    ELSE IF ~(i \in Frames /\ frame_files[i].present)
    THEN [ok |-> FALSE, frames |-> <<>>]
    ELSE LET sec == NpSection(HdfFrame(i, IF flag THEN "mask" ELSE "data"),
                              x, y)
             w == x.stop - x.start
             h == y.stop - y.start
             rest == HdfLoad(x, y, i + 1, stop, flag)
         IN IF Assignable(sec, w, h) /\ rest.ok
            THEN [ok |-> TRUE,
                  frames |-> <<Broadcast(sec, w, h)>> \o rest.frames]
            ELSE [ok |-> FALSE, frames |-> <<>>]

\* HDFCube.__getitem__ (orb/core.py), entered directly or through the
\* inherited get_data, get_data_frame, get_all_data, get_column_data
HdfCall(name, mask, kx, ky, kz) ==
    LET flag == IF mask THEN TRUE ELSE return_mask
        xs == CoreDefaultSlice(kx, DimX)
        ys == CoreDefaultSlice(ky, DimY)
        zs == CoreDefaultSlice(kz, DimZ)
        x == Slice(xs.start, xs.stop)
        y == Slice(ys.start, ys.stop)
        load == HdfLoad(x, y, zs.start, zs.stop, flag)
    IN
    /\ kind = "HDFCube"
    /\ NotInCall
    /\ ncalls' = ncalls + 1
    /\ call' = [name |-> name, mask |-> mask, key |-> <<kx, ky, kz>>]
    /\ UNCHANGED <<io_vars, cfg_vars, loop_vars, fs_vars, pool, data>>
    /\ IF (flag /\ ~mask_exists) \/ xs.err \/ ys.err \/ zs.err
       THEN /\ Raise
            /\ return_mask' = flag
            /\ x_slice' = Slice(0, 0) /\ y_slice' = Slice(0, 0)
            /\ z_slice' = Slice(0, 0)
       ELSE /\ x_slice' = x /\ y_slice' = y
            /\ z_slice' = Slice(zs.start, zs.stop)
            /\ IF ~load.ok
               THEN /\ Raise
                    /\ return_mask' = flag
               ELSE /\ Return(Squeeze(<<x.stop - x.start, y.stop - y.start,
                                        zs.stop - zs.start>>), load.frames)
                    \* only the calling method resets the flag
                    /\ return_mask' = IF name = "getitem" THEN flag
                                      ELSE FALSE

\* h5py selection of one axis of length n: an integer counts from the end
\* when negative and must then lie on the axis; a slice is normalised
H5Axis(key, n) ==
    IF key.int
    THEN LET i == IF key.start < 0 THEN key.start + n ELSE key.start
         IN IF i >= 0 /\ i < n THEN [err |-> FALSE, int |-> TRUE,
                                     start |-> i, stop |-> i + 1]
            ELSE [err |-> TRUE, int |-> TRUE, start |-> 0, stop |-> 0]
    ELSE LET b == IF key.sNone THEN 0 ELSE NpNorm(key.start, n)
             e == IF key.eNone THEN n ELSE NpNorm(key.stop, n)
         IN [err |-> e < b, int |-> FALSE, start |-> b, stop |-> e]

\* the axes selected by an integer are dropped from the result
H5Shape(sx, sy, sz) ==
    (IF sx.int THEN <<>> ELSE <<sx.stop - sx.start>>)
    \o (IF sy.int THEN <<>> ELSE <<sy.stop - sy.start>>)
    \o (IF sz.int THEN <<>> ELSE <<sz.stop - sz.start>>)

\* HDFCube.__getitem__ (orb/cube.py), new cube architecture:
\* np.squeeze(f['data'][key] * mask[key[0], key[1]])
NewHdfCall(name, kx, ky, kz) ==
    LET sx == H5Axis(kx, DimX)
        sy == H5Axis(ky, DimY)
        sz == H5Axis(kz, DimZ)
        x == Slice(sx.start, sx.stop)
        y == Slice(sy.start, sy.stop)
    IN
    /\ kind = "NewHDFCube"
    /\ NotInCall
    /\ ncalls' = ncalls + 1
    /\ call' = [name |-> name, mask |-> FALSE, key |-> <<kx, ky, kz>>]
    /\ UNCHANGED <<io_vars, cfg_vars, loop_vars, fs_vars, pool, data,
                   return_mask>>
    /\ IF sx.err \/ sy.err \/ sz.err
       THEN /\ Raise
            /\ x_slice' = Slice(0, 0) /\ y_slice' = Slice(0, 0)
            /\ z_slice' = Slice(0, 0)
       ELSE /\ x_slice' = x /\ y_slice' = y
            /\ z_slice' = Slice(sz.start, sz.stop)
            /\ IF mask_exists
               THEN \* get_dataset('mask'): "dataset mask is protected"
                    Raise
               ELSE Return(Squeeze(H5Shape(sx, sy, sz)),
                           [k \in 1 .. (sz.stop - sz.start) |->
                              NpSection(HdfFrame(sz.start + k - 1, "data"),
                                        x, y)])

(***************************************************************************)
(* Calls made by the user of a cube                                        *)
(***************************************************************************)
Ints(n) == {IntKey(i) : i \in 0 .. (n - 1)}

Ranges(n) == {FromTo(s, e) : s \in 0 .. (n - 1), e \in 1 .. n}

\* the keys that address at least one element of an axis of length n
ValidKeys(n) ==
    Ints(n) \cup {FullKey} \cup {k \in Ranges(n) : k.start < k.stop}

PlaneKeys == {<<FullKey, FullKey>>, <<IntKey(0), FullKey>>,
              <<FromTo(1, DimX), FromTo(0, DimY - 1)>>}

\* cube[kx, ky, kz]
GetItem(kx, ky, kz) ==
    \/ Call("getitem", FALSE, kx, ky, kz)
    \/ HdfCall("getitem", FALSE, kx, ky, kz)
    \/ NewHdfCall("getitem", kx, ky, kz)

\* Cube.get_data(x_min, x_max, y_min, y_max, z_min, z_max, mask=mask)
GetData(x_min, x_max, y_min, y_max, z_min, z_max, mask) ==
    /\ kind \in {"Cube", "HDFCube"}
    /\ \/ Call("get_data", mask, FromTo(x_min, x_max), FromTo(y_min, y_max),
               FromTo(z_min, z_max))
       \/ HdfCall("get_data", mask, FromTo(x_min, x_max),
                  FromTo(y_min, y_max), FromTo(z_min, z_max))

\* Cube.get_data_frame(index, mask=mask): self[:,:,index]
GetDataFrame(index, mask) ==
    \/ /\ kind \in {"Cube", "HDFCube"}
       /\ \/ Call("get_data_frame", mask, FullKey, FullKey, IntKey(index))
          \/ HdfCall("get_data_frame", mask, FullKey, FullKey,
                     IntKey(index))
    \/ /\ ~mask
       /\ NewHdfCall("get_data_frame", FullKey, FullKey, IntKey(index))

\* Cube.get_all_data(mask=mask): self[:,:,:]
GetAllData(mask) ==
    \/ /\ kind \in {"Cube", "HDFCube"}
       /\ \/ Call("get_all_data", mask, FullKey, FullKey, FullKey)
          \/ HdfCall("get_all_data", mask, FullKey, FullKey, FullKey)
    \/ /\ ~mask
       /\ NewHdfCall("get_all_data", FullKey, FullKey, FullKey)

\* Cube.get_column_data(icol, mask=mask):
\* self.get_data(icol, icol+1, 0, self.dimy, 0, self.dimz)
GetColumnData(icol, mask) ==
    /\ kind \in {"Cube", "HDFCube"}
    /\ \/ Call("get_column_data", mask, FromTo(icol, icol + 1),
               FromTo(0, DimY), FromTo(0, DimZ))
       \/ HdfCall("get_column_data", mask, FromTo(icol, icol + 1),
                  FromTo(0, DimY), FromTo(0, DimZ))

\* the steps of a read in progress, with and without parallel loading
ParStep ==
    \/ InitPool
    \/ StartBatch
    \/ Submit
    \/ \E j \in 1 .. MaxCpus : WorkerRun(j)
    \/ Collect
    \/ Stack
    \/ ClosePool

SeqStep ==
    \/ SeqRead
    \/ SeqReturn

Step ==
    \/ ParStep
    \/ SeqStep

(***************************************************************************)
(* Spec: one read of a freshly constructed cube, over every valid range of *)
(* the z axis, with every interleaving of the workers.                     *)
(***************************************************************************)
FirstRead ==
    /\ pc = "idle"
    /\ \/ \E p \in PlaneKeys, kz \in ValidKeys(DimZ) :
             GetItem(p[1], p[2], kz)
       \/ \E k \in Ranges(DimZ), mask \in BOOLEAN :
             /\ k.start < k.stop
             /\ GetData(0, DimX, 0, DimY, k.start, k.stop, mask)

Next ==
    \/ FirstRead
    \/ Step

Spec == Init /\ [][Next]_vars

(***************************************************************************)
(* Properties                                                              *)
(***************************************************************************)
\* what the decoding of one slot of frame f yields for the whole plane
FrameContent(f, slot) ==
    bin_image(Transpose(IF slot = "mask" THEN MaskData(f) ELSE RawData(f)),
              prebinning)

\* the frames the call addresses
Range == z_slice.start .. (z_slice.stop - 1)

Depth == z_slice.stop - z_slice.start

FrameList == kind \in {"Cube", "FDCube"}

\* every frame of the range satisfies the invariant of the data model:
\* it exists and has the (dimx, dimy) of the cube
RangeWellFormed == \A f \in Range : f \in Frames /\ frame_files[f] = GoodFrame

ReturnedArray == pc = "returned" /\ result.status = "array"

MultiFrame == Depth > 1

\* C1: when a parallel multi-frame read of [s, e) on a frame-list cube
\* returns, slice k of the result along z is the requested section of
\* frame s + k, for every k, whatever the worker count and the order in
\* which the jobs ran.
C1_RequestOrder ==
    (ReturnedArray /\ FrameList /\ parallel /\ MultiFrame /\ RangeWellFormed)
    => /\ Len(result.frames) = Depth
       /\ \A k \in 0 .. (Depth - 1) :
            \E slot \in {"data", "mask"} :
               result.frames[k + 1] =
                  NpSection(FrameContent(z_slice.start + k, slot),
                            x_slice, y_slice)

\* a parallel read has returned although the second job of its last batch
\* ran before the first one
C1_Witness ==
    /\ ReturnedArray /\ FrameList /\ parallel /\ RangeWellFormed
    /\ pool = "closed"
    /\ Len(jobs) >= 2
    /\ jobs[2].rank < jobs[1].rank
    /\ Len(result.frames) = Depth

\* C2: the jobs submitted by a read and not collected yet never outnumber
\* the workers of the pool, and when the first job of a batch is about to
\* be submitted every job of the batches before has been collected.
C2_BoundedInFlight ==
    /\ inflight <= ncpus
    /\ (pc = "submit" /\ jobs = <<>>) => inflight = 0

\* a batch after the first one is full: as many jobs in flight as workers
C2_Witness ==
    /\ pc = "collect"
    /\ ik > z_slice.start + 1
    /\ inflight = ncpus

\* C3: when a read that created a pool has handed control back, with a
\* result or with an exception, the pool has been torn down.
C3_PoolTornDown ==
    pc \in {"returned", "raised"} => pool # "alive"

\* C5: a multi-frame read in mask mode on a frame-list cube returns the
\* mask of frame s + k as slice k, for every k.
C5_MaskEveryFrame ==
    (ReturnedArray /\ kind = "Cube" /\ call.mask /\ MultiFrame
       /\ RangeWellFormed)
    => \A k \in 0 .. (Depth - 1) :
          /\ k < Len(result.frames)
          /\ result.frames[k + 1] =
                NpSection(FrameContent(z_slice.start + k, "mask"),
                          x_slice, y_slice)

ValidRange(sl, n) == 0 <= sl.start /\ sl.start < sl.stop /\ sl.stop <= n

\* C7: for valid x, y and z ranges the returned array has, singleton axes
\* removed, the shape (x.stop-x.start, y.stop-y.start, z.stop-z.start),
\* on the frame-list cubes and on the container cubes.
C7_Shape ==
    (ReturnedArray /\ ValidRange(x_slice, DimX) /\ ValidRange(y_slice, DimY)
       /\ ValidRange(z_slice, DimZ) /\ RangeWellFormed)
    => Squeeze(result.shape) =
          Squeeze(<<x_slice.stop - x_slice.start,
                    y_slice.stop - y_slice.start, Depth>>)

\* a parallel read over the whole z axis has returned, its last batch
\* having been cut short
C7_Witness ==
    /\ ReturnedArray /\ RangeWellFormed
    /\ pool = "closed"
    /\ Depth = DimZ
    /\ nbatch < ncpus
    /\ result.shape = <<DimX, DimY, DimZ>>

(***************************************************************************)
(* SpecFlag: up to MaxCalls reads in a row on one cube whose frames all    *)
(* have the cube's shape, through __getitem__ and through the four methods *)
(* that take mask=, with indexes on and off the axes.                      *)
(***************************************************************************)
InitFlag ==
    /\ kind \in {"Cube", "FDCube", "HDFCube", "NewHDFCube"}
    /\ strict = FALSE
    /\ pixel_base = 0
    /\ prebinning = 1
    /\ mask_exists \in IF kind = "FDCube" THEN {FALSE} ELSE BOOLEAN
    /\ parallel \in IF kind = "Cube" THEN {TRUE}
                    ELSE IF kind = "FDCube" THEN BOOLEAN ELSE {FALSE}
    /\ ncpus \in IF parallel THEN 1 .. MaxCpus ELSE {1}
    /\ frame_files = GoodFrames
    /\ InitCall

FlagRead ==
    /\ ncalls < MaxCalls
    /\ \/ \E kz \in {IntKey(0), IntKey(DimZ), FullKey} :
             GetItem(FullKey, FullKey, kz)
       \/ \E index \in {0, DimZ}, mask \in BOOLEAN :
             GetDataFrame(index, mask)
       \/ \E mask \in BOOLEAN : GetAllData(mask)
       \/ \E x_max \in {DimX, DimX + 1}, mask \in BOOLEAN :
             GetData(0, x_max, 0, DimY, 0, 2, mask)
       \/ \E icol \in {0, DimX}, mask \in BOOLEAN :
             GetColumnData(icol, mask)

NextFlag ==
    \/ FlagRead
    \/ Step

SpecFlag == InitFlag /\ [][NextFlag]_vars

\* C4: when a read call on a frame-list cube or on a container cube has
\* handed control back, with data or with an exception, the mask-read flag
\* of the cube is off.
C4_FlagOff ==
    pc \in {"returned", "raised"} => return_mask = FALSE

(***************************************************************************)
(* SpecIndex: one read of a frame-list cube whose frames all have the      *)
(* cube's shape, with every integer and every slice around one axis, the   *)
(* two other axes being read whole or at index 0.                          *)
(***************************************************************************)
InitIndex ==
    /\ kind \in {"Cube", "FDCube"}
    /\ strict \in BOOLEAN
    /\ pixel_base = 0
    /\ prebinning \in IF kind = "Cube" THEN {1, 2} ELSE {1}
    /\ mask_exists = FALSE
    /\ parallel \in IF kind = "Cube" THEN {TRUE} ELSE BOOLEAN
    /\ ncpus = IF parallel THEN MaxCpus ELSE 1
    /\ frame_files = GoodFrames
    /\ InitCall

\* the integers and the slices around an axis of length n
AllKeys(n) ==
    {IntKey(i) : i \in (0 - n - 1) .. (n + 1)}
    \cup {SliceKey(s, sNone, e, eNone) :
            s \in (0 - 1) .. (n + 1), sNone \in BOOLEAN,
            e \in (0 - n - 1) .. (n + 1), eNone \in BOOLEAN}

OtherKeys == {FullKey, IntKey(0)}

IndexRead ==
    /\ pc = "idle"
    /\ \E o1 \in OtherKeys, o2 \in OtherKeys :
          \/ \E k \in AllKeys(DimX) : Call("getitem", FALSE, k, o1, o2)
          \/ \E k \in AllKeys(DimY) : Call("getitem", FALSE, o1, k, o2)
          \/ \E k \in AllKeys(DimZ) : Call("getitem", FALSE, o1, o2, k)

NextIndex ==
    \/ IndexRead
    \/ Step

SpecIndex == InitIndex /\ [][NextIndex]_vars

\* the bounds a key asks for on an axis of length n: an integer i is the
\* slice [i, i+1), a missing start is 0, a missing stop is n, a negative
\* stop counts from n
Resolved(key, n) ==
    IF key.int THEN Slice(key.start, key.start + 1)
    ELSE Slice(IF key.sNone THEN 0 ELSE key.start,
               IF key.eNone THEN n
               ELSE IF key.stop < 0 THEN n + key.stop ELSE key.stop)

OutOfRange(key, n) ==
    LET r == Resolved(key, n)
    IN \/ r.start < 0 \/ r.start > n
       \/ r.stop < 0 \/ r.stop > n
       \/ r.stop <= r.start

\* C6: a read of a frame-list cube with a key that is out of range on its
\* axis never returns an array.
C6_OutOfRangeRaises ==
    (FrameList /\ result.status = "array")
    => /\ ~OutOfRange(call.key[1], DimX)
       /\ ~OutOfRange(call.key[2], DimY)
       /\ ~OutOfRange(call.key[3], DimZ)

(***************************************************************************)
(* SpecCache: up to MaxCalls reads in a row on one cube built with a       *)
(* prebinning of 2, whose pixels are small integers or integers above      *)
(* 2^Float32Mantissa.                                                      *)
(***************************************************************************)
InitCache ==
    /\ kind = "Cube"
    /\ strict = FALSE
    /\ pixel_base \in {0, 2 ^ Float32Mantissa + 1}
    /\ prebinning = 2
    /\ mask_exists \in BOOLEAN
    /\ parallel = TRUE
    /\ ncpus \in {1, MaxCpus}
    /\ frame_files \in FrameSets
    /\ InitCall

CacheRead ==
    /\ ncalls < MaxCalls
    /\ \/ \E kz \in {IntKey(0), IntKey(DimZ - 2), FullKey} :
             Call("getitem", FALSE, FullKey, FullKey, kz)
       \/ \E index \in {0, 1}, mask \in BOOLEAN :
             Call("get_data_frame", mask, FullKey, FullKey, IntKey(index))

NextCache ==
    \/ CacheRead
    \/ ParStep

SpecCache == InitCache /\ [][NextCache]_vars

\* C8: with a prebinning above 1, a call never decodes (nor bins) the file
\* of a frame that a call before it has read.
C8_NoSecondDecode ==
    prebinning > 1 => hist.decoded \cap hist.before = {}

\* a call has returned frames that a call before it had read, all of them
\* taken from STORED/
C8_Witness ==
    /\ ReturnedArray /\ prebinning > 1
    /\ ncalls > 1
    /\ hist.hit \cap hist.before # {}
    /\ hist.decoded = {}

\* C9: with a prebinning above 1, the read of a frame that was computed
\* from the raw file and the read of the same frame, with the same x and y
\* ranges, that was served from STORED/ returned the same array.
C9_BitIdentical ==
    (/\ prebinning > 1
     /\ miss_read.valid /\ hit_read.valid
     /\ miss_read.frame = hit_read.frame
     /\ miss_read.xs = hit_read.xs /\ miss_read.ys = hit_read.ys
     /\ miss_read.rm = hit_read.rm)
    => miss_read.section = hit_read.section

\* C10: a call that took a frame from STORED/ did not open the raw file of
\* that frame.
C10_RawUntouched ==
    hist.hit \cap hist.opened = {}

(***************************************************************************)
(* RWHDFCube (orb/cube.py): the writable container cube.  The file holds   *)
(* the dataset 'data' (its shape and its planes), other datasets and       *)
(* attributes.  The arrays written are uniform: an array is held as its    *)
(* shape and the value of its pixels.                                      *)
(***************************************************************************)
\* HDFCube.protected_datasets
protected_datasets ==
    {"data", "mask", "header", "deep_frame", "params", "axis"}

\* a dataset path; 'frame_header_{}'.format(index) for the frame headers
Path(name) == [name |-> name, index |-> 0 - 1]

FrameHeaderPath(index) == [name |-> "frame_header", index |-> index]

Paths ==
    {Path(n) : n \in (protected_datasets \cup {"other", "energy_map"})
                    \ {"data"}}
    \cup {FrameHeaderPath(i) : i \in Frames}

ParamKeys == {"step", "order"}

Uniform(shape, v) == [shape |-> shape, value |-> v]

NoData == Uniform(<<>>, NoValue)

NoShape == <<>>

CubeShape == <<DimX, DimY, DimZ>>

\* open_hdf5(path, 'w'): an empty file
EmptyFile ==
    [exists |-> TRUE, level2 |-> FALSE, shape |-> <<>>, frames |-> <<>>,
     sets |-> [p \in Paths |-> NoData], attrs |-> [k \in ParamKeys |-> NoValue]]

\* f.create_dataset('data', shape=shape, chunks=True): float32 zeros;
\* f.attrs['level2'] = True
NewContainer(shape) ==
    [EmptyFile EXCEPT !.level2 = TRUE, !.shape = shape,
                      !.frames = [f \in 0 .. (shape[3] - 1) |-> 0]]

\* del f[path]; f.create_dataset(path, data=data, chunks=True)
WriteDataset(file, path, d) ==
    IF path.name = "data"
    THEN [file EXCEPT !.shape = d.shape,
                      !.frames = [f \in 0 .. (d.shape[3] - 1) |-> d.value]]
    ELSE [file EXCEPT !.sets[path] = d]

\* the branch RWHDFCube.__init__ takes
MutInitCase(exists, shape) ==
    IF ~exists THEN IF shape = NoShape THEN "error" ELSE "create"
    ELSE "open"

InitCase(exists, shape) ==
    IF ~exists THEN IF shape = NoShape THEN "error" ELSE "create"
    ELSE IF shape # NoShape THEN "error" ELSE "open"

\* what an operation on the writable cube leaves in pc, call and result
Done(name, key, ok, res) ==
    /\ call' = [name |-> name, mask |-> FALSE, key |-> key]
    /\ pc' = IF ok THEN "returned" ELSE "raised"
    /\ result' = IF ok THEN res
                 ELSE [status |-> "error", shape |-> <<>>, frames |-> <<>>]

RWUnchanged ==
    UNCHANGED <<cfg_vars, x_slice, y_slice, z_slice, loop_vars, fs_vars,
                return_mask, data, pool, tool_vars>>

\* RWHDFCube.__init__(path, shape=shape), then HDFCube.__init__
RWInit(shape) ==
    LET case == InitCase(h5.exists, shape)
        file == IF case # "create" THEN h5
                ELSE IF Len(shape) # 3 THEN EmptyFile
                ELSE NewContainer(shape)
        \* 'Old cubes are not writable', 'must have exactly 3 dimensions'
        ok == case # "error" /\ file.level2 /\ Len(file.shape) = 3
    IN
    /\ kind = "RWHDFCube"
    /\ obj = "none"
    /\ h5' = file
    /\ obj' = IF ok THEN "open" ELSE "failed"
    /\ Done("init", shape, ok, NoResult)
    /\ RWUnchanged
    /\ UNCHANGED <<ncalls, written>>

RWReady == kind = "RWHDFCube" /\ obj = "open" /\ NotInCall

\* RWHDFCube.__setitem__((:, :, index), value): value.astype(np.float32),
\* f['data'].__setitem__(key, value)
SetItem(index, v) ==
    LET sz == H5Axis(IntKey(index), h5.shape[3])
    IN
    /\ RWReady
    /\ ncalls' = ncalls + 1
    /\ Done("setitem", <<FullKey, FullKey, IntKey(index)>>, ~sz.err, NoResult)
    /\ h5' = IF sz.err THEN h5
             ELSE [h5 EXCEPT !.frames[sz.start] = Narrow(v)]
    /\ written' = IF sz.err THEN written
                  ELSE [written EXCEPT ![sz.start] = v]
    /\ RWUnchanged
    /\ UNCHANGED obj

\* RWHDFCube.set_param(key, value)
SetParam(key, value) ==
    /\ RWReady
    /\ ncalls' = ncalls + 1
    /\ Done("set_param", key, TRUE, NoResult)
    /\ h5' = IF h5.attrs[key] = value THEN h5
             ELSE [h5 EXCEPT !.attrs[key] = value]
    /\ RWUnchanged
    /\ UNCHANGED <<obj, written>>

\* the test of set_dataset on the protected names
MutRefused(path, protect) ==
    ~protect /\ path.name \in protected_datasets

Refused(path, protect) ==
    protect /\ path.name \in protected_datasets

\* set_dataset refuses 'data' whatever protect is
MutIsData(path) == FALSE

IsData(path) == path.name = "data"

\* RWHDFCube.set_dataset(path, data, protect=protect)
SetDataset(path, d, protect) ==
    LET ok == ~Refused(path, protect) /\ ~IsData(path)
    IN
    /\ RWReady
    /\ ncalls' = ncalls + 1
    /\ call' = [name |-> "set_dataset", mask |-> FALSE, key |-> path,
                protect |-> protect]
    /\ pc' = IF ok THEN "returned" ELSE "raised"
    /\ result' = IF ok THEN NoResult
                 ELSE [status |-> "error", shape |-> <<>>, frames |-> <<>>]
    /\ h5' = IF ok THEN WriteDataset(h5, path, d) ELSE h5
    /\ RWUnchanged
    /\ UNCHANGED <<obj, written>>

\* RWHDFCube.set_frame_header(index, header):
\* self.set_dataset('frame_header_{}'.format(index), header)
SetFrameHeader(index, header) ==
    SetDataset(FrameHeaderPath(index), header, TRUE)

\* Data.set_mask: a mask has the shape (dimx, dimy) of the cube
MaskAccepted(d) == d.shape = <<h5.shape[1], h5.shape[2]>>

\* RWHDFCube.set_mask(data): HDFCube.set_mask(self, data), then
\* self.set_dataset('mask', data, protect=False)
SetMask(d) ==
    /\ RWReady
    /\ IF MaskAccepted(d)
       THEN SetDataset(Path("mask"), d, FALSE)
       ELSE /\ ncalls' = ncalls + 1
            /\ Done("set_mask", Path("mask"), FALSE, NoResult)
            /\ RWUnchanged
            /\ UNCHANGED io_vars

\* HDFCube.__getitem__((:, :, index)) on the writable cube:
\* f['data'][key], times get_dataset('mask') when the file has a mask
\* (get_dataset raises: 'mask' is protected), float32 widened to float64
RWGetItem(index) ==
    LET sz == H5Axis(IntKey(index), h5.shape[3])
        ok == ~sz.err /\ h5.sets[Path("mask")] = NoData
        plane == Uniform(<<h5.shape[1], h5.shape[2]>>, h5.frames[sz.start])
    IN
    /\ RWReady
    /\ ncalls' = ncalls + 1
    /\ Done("getitem", <<FullKey, FullKey, IntKey(index)>>, ok,
            [status |-> "array", shape |-> Squeeze(plane.shape),
             frames |-> <<plane>>])
    /\ RWUnchanged
    /\ UNCHANGED io_vars

(***************************************************************************)
(* SpecWrite: a writable cube is constructed on a path where there is no   *)
(* file, a new container (empty, with a mask, or with every frame          *)
(* written) or a container of the old architecture; up to MaxCalls         *)
(* operations are then made through it.                                    *)
(***************************************************************************)
MaskData2D == Uniform(<<DimX, DimY>>, 1)

ContainerFiles ==
    { NoContainer,
      NewContainer(CubeShape),
      WriteDataset(NewContainer(CubeShape), Path("mask"), MaskData2D),
      [NewContainer(CubeShape) EXCEPT !.frames = [f \in Frames |-> 1]],
      [NewContainer(CubeShape) EXCEPT !.level2 = FALSE] }

InitWrite ==
    /\ kind = "RWHDFCube"
    /\ strict = FALSE
    /\ pixel_base = 0
    /\ prebinning = 1
    /\ mask_exists = FALSE
    /\ parallel = FALSE
    /\ ncpus = 1
    /\ frame_files = GoodFrames
    /\ InitRead
    /\ h5 \in ContainerFiles
    /\ obj = "none"
    /\ written = [f \in Frames |-> NoValue]
    /\ InitTools

Construct ==
    \E shape \in {NoShape, CubeShape, <<DimX, DimY>>} : RWInit(shape)

WriteOp ==
    /\ ncalls < MaxCalls
    /\ \/ \E index \in {0, DimZ - 1, DimZ},
             v \in {1, 2 ^ Float32Mantissa + 1} : SetItem(index, v)
       \/ \E key \in ParamKeys : SetParam(key, 1)
       \/ \E name \in protected_datasets \cup {"other"},
             protect \in BOOLEAN :
             SetDataset(Path(name), Uniform(<<1, 1, 1>>, 2), protect)
       \/ SetFrameHeader(0, Uniform(<<1>>, 1))
       \/ \E d \in {MaskData2D, Uniform(<<1, 1>>, 1)} : SetMask(d)
       \/ \E index \in {0, DimZ - 1} : RWGetItem(index)

NextWrite ==
    \/ Construct
    \/ WriteOp

SpecWrite == InitWrite /\ [][NextWrite]_vars

\* C11: a read of frame i through the writable cube returns the value last
\* assigned to frame i through the cube, narrowed to 32 bits, whatever
\* else was written since.
C11_ReadBack ==
    (kind = "RWHDFCube" /\ call.name = "getitem"
       /\ pc \in {"returned", "raised"})
    => LET sz == H5Axis(call.key[3], h5.shape[3])
       IN (~sz.err /\ written[sz.start] # NoValue)
          => /\ result.status = "array"
             /\ result.frames =
                  <<Uniform(<<h5.shape[1], h5.shape[2]>>,
                            Narrow(written[sz.start]))>>

\* C12: once the writable cube is constructed, no operation made through
\* it changes the shape of the dataset 'data', and a container that the
\* construction created has the shape that was asked for.
C12_DataShapeFixed ==
    [][/\ (obj = "open" /\ obj' = "open") => h5'.shape = h5.shape
       /\ (obj = "none" /\ obj' = "open")
          => h5'.shape = IF h5.exists THEN h5.shape ELSE call'.key]_vars

\* set_dataset has written a protected dataset, the protection being
\* disabled, and has been refused 'data' in the same conditions
C12_Witness ==
    /\ obj = "open"
    /\ call.name = "set_dataset" /\ ~call.protect
    /\ call.key = Path("data") /\ pc = "raised"
    /\ h5.sets[Path("deep_frame")] # NoData
    /\ h5.shape = CubeShape

\* C13: set_dataset with the protection enabled and one of the names data,
\* mask, header, deep_frame, params, axis raises and leaves the file as it
\* was.
C13_ProtectedRefused ==
    [][(/\ RWReady
        /\ ncalls' = ncalls + 1
        /\ call'.name = "set_dataset"
        /\ call'.protect
        /\ call'.key.name \in {"data", "mask", "header", "deep_frame",
                               "params", "axis"})
       => (pc' = "raised" /\ h5' = h5)]_vars

\* set_dataset('data', ...) has been refused on a container whose frames
\* were all written
C13_Witness ==
    /\ obj = "open"
    /\ call.name = "set_dataset" /\ call.protect
    /\ call.key = Path("data") /\ pc = "raised"
    /\ \A f \in Frames : h5.frames[f] # 0

\* C14: the construction succeeds when the path is absent and a shape of
\* three dimensions is given (the file is created with that shape) and
\* when the path holds a container of the new architecture and no shape is
\* given (the file is left as it is); it fails when the path is present
\* and a shape is given and when the path is absent and no shape is given;
\* a failed construction leaves an existing file as it was.
C14_Construction ==
    [][(obj = "none" /\ obj' # "none")
       => LET shape == call'.key
          IN /\ (obj' = "open")
                => \/ ~h5.exists /\ shape # NoShape
                   \/ h5.exists /\ shape = NoShape
             /\ (~h5.exists /\ Len(shape) = 3)
                => /\ obj' = "open"
                   /\ h5'.exists /\ h5'.shape = shape
             /\ (h5.exists /\ h5.level2 /\ shape = NoShape)
                => (obj' = "open" /\ h5' = h5)
             /\ (h5.exists /\ shape # NoShape) => obj' = "failed"
             /\ (~h5.exists /\ shape = NoShape)
                => (obj' = "failed" /\ ~h5'.exists)
             /\ (h5.exists /\ obj' = "failed") => h5' = h5]_vars

\* the construction with a shape has failed on a path that holds a file
C14_Witness ==
    /\ obj = "failed"
    /\ call.name = "init" /\ call.key = CubeShape
    /\ h5.exists /\ h5.level2

(***************************************************************************)
(* HDFCube.__init__ (orb/core.py): the container file is opened read-only, *)
(* its attributes are compared with the frame groups found in it.          *)
(***************************************************************************)
\* len([igrp for igrp in f if 'frame' == igrp[:5]])
MutFrameNb(file) == file.dimz

FrameNb(file) == Cardinality(file.slots)

\* the checks of HDFCube.__init__, in the order of the code; each failing
\* check raises
OpenChecks(file) ==
    /\ FrameNb(file) = file.dimz
    /\ 0 \in file.slots
    /\ <<file.dimx, file.dimy>> = file.shape0
    /\ file.dimx # 0 /\ file.dimy # 0 /\ file.dimz # 0

\* HDFCube(cube_path)
HdfOpen ==
    /\ kind = "HDFCube"
    /\ obj = "none"
    /\ NotInCall
    /\ obj' = IF OpenChecks(hdf) THEN "open" ELSE "failed"
    /\ Done("init", <<>>, OpenChecks(hdf), NoResult)
    /\ UNCHANGED <<cfg_vars, x_slice, y_slice, z_slice, loop_vars, fs_vars,
                   return_mask, data, pool, ncalls, h5, written, tool_vars>>

(***************************************************************************)
(* SpecOpen: an HDFCube is constructed on a container file whose           *)
(* attributes, frame groups and first frame may disagree.                  *)
(***************************************************************************)
Shapes0 == {<<DimX, DimY>>, <<DimX - 1, DimY>>, <<DimY, DimX + 1>>}

OldContainers ==
    { OldContainer(dimx, dimy, dimz, slots, shape0) :
        dimx \in {0, DimX}, dimy \in {0, DimY}, dimz \in 0 .. DimZ,
        slots \in SUBSET Frames, shape0 \in Shapes0 }

InitOpen ==
    /\ kind = "HDFCube"
    /\ strict = FALSE
    /\ pixel_base = 0
    /\ prebinning = 1
    /\ mask_exists = FALSE
    /\ parallel = FALSE
    /\ ncpus = 1
    /\ frame_files = GoodFrames
    /\ InitRead
    /\ h5 = NoContainer
    /\ obj = "none"
    /\ written = [f \in Frames |-> NoValue]
    /\ hdf \in OldContainers
    /\ dest = <<>>
    /\ trace = <<>>
    /\ fn = NoCall

NextOpen == HdfOpen

SpecOpen == InitOpen /\ [][NextOpen]_vars

\* C15: the construction of an HDFCube succeeds only if the attribute dimz
\* is the number of frame groups of the file, frame 0 is one of them and
\* its data has the shape (dimx, dimy); it raises otherwise, and in both
\* cases the file is left as it was.
C15_OpenValidates ==
    [][(kind = "HDFCube" /\ obj = "none" /\ obj' # "none")
       => /\ hdf' = hdf
          /\ (obj' = "open")
             => /\ hdf.dimz = Cardinality(hdf.slots)
                /\ 0 \in hdf.slots
                /\ hdf.shape0 = <<hdf.dimx, hdf.dimy>>
          /\ (\/ hdf.dimz # Cardinality(hdf.slots)
              \/ 0 \notin hdf.slots
              \/ hdf.shape0 # <<hdf.dimx, hdf.dimy>>)
             => (obj' = "failed" /\ pc' = "raised")]_vars

\* the construction has raised on a file whose only fault is a frame group
\* that is missing at the end
C15_Witness ==
    /\ kind = "HDFCube" /\ obj = "failed" /\ pc = "raised"
    /\ hdf.dimz = DimZ /\ hdf.slots = Frames \ {DimZ - 1}
    /\ hdf.shape0 = <<hdf.dimx, hdf.dimy>> /\ hdf.dimx = DimX
    /\ hdf.dimy = DimY

(***************************************************************************)
(* get_quadrant_dims: the rectangle of one quadrant of a frame cut in      *)
(* div_nb x div_nb quadrants.                                              *)
(***************************************************************************)
MaxDim == 5        \* largest dimx, dimy given to get_quadrant_dims
MaxDiv == 3        \* largest div_nb given to get_quadrant_dims

\* math.ceil(dim / div_nb): the quotient of two integers is their floor
\* quotient, which math.ceil leaves as it is
MutQuadStep(dim, div_nb) == (dim + div_nb - 1) \div div_nb

QuadStep(dim, div_nb) == dim \div div_nb

QuadError == <<0 - 1, 0 - 1, 0 - 1, 0 - 1>>

\* Cube.get_quadrant_dims(quad_number, div_nb, dimx, dimy) (orb/core.py):
\* <<x_min, x_max, y_min, y_max>>
CoreQuadrantDims(quad_number, div_nb, dimx, dimy) ==
    LET quad_nb == div_nb * div_nb
        index_x == quad_number % div_nb
        index_y == (quad_number - index_x) \div div_nb
        x_min == index_x * QuadStep(dimx, div_nb)
        x_max == IF index_x # div_nb - 1
                 THEN (index_x + 1) * QuadStep(dimx, div_nb)
                 ELSE dimx
        y_min == index_y * QuadStep(dimy, div_nb)
        y_max == IF index_y # div_nb - 1
                 THEN (index_y + 1) * QuadStep(dimy, div_nb)
                 ELSE dimy
    IN IF quad_number < 0 \/ quad_number > quad_nb - 1 THEN QuadError
       ELSE <<x_min, x_max, y_min, y_max>>

\* Tools._get_quadrant_dims(quad_number, dimx, dimy, div_nb), to which
\* HDFCube.get_quadrant_dims (orb/cube.py) hands its arguments: the
\* quadrants tile the frame, the last row and the last column absorbing
\* the remainder
ToolsQuadrantDims(quad_number, dimx, dimy, div_nb) ==
    LET index_x == quad_number % div_nb
        index_y == quad_number \div div_nb
        last == div_nb - 1
    IN IF quad_number < 0 \/ quad_number > div_nb * div_nb - 1
       THEN QuadError
       ELSE <<index_x * (dimx \div div_nb),
              IF index_x = last THEN dimx
              ELSE (index_x + 1) * (dimx \div div_nb),
              index_y * (dimy \div div_nb),
              IF index_y = last THEN dimy
              ELSE (index_y + 1) * (dimy \div div_nb)>>

get_quadrant_dims(k, quad_number, div_nb, dimx, dimy) ==
    IF k = "NewHDFCube"
    THEN ToolsQuadrantDims(quad_number, dimx, dimy, div_nb)
    ELSE CoreQuadrantDims(quad_number, div_nb, dimx, dimy)

\* a cube on which no read is made
IdleCube ==
    /\ strict = FALSE
    /\ pixel_base = 0
    /\ prebinning = 1
    /\ mask_exists = FALSE
    /\ parallel = FALSE
    /\ ncpus = 1
    /\ frame_files = GoodFrames
    /\ InitCall

ToolsUnchanged ==
    UNCHANGED <<cfg_vars, call_vars, loop_vars, fs_vars, return_mask, pc,
                data, pool, result, ncalls, h5, obj, written>>

\* get_quadrant_dims is called for every quadrant number of a division
QuadCall(div_nb, dimx, dimy) ==
    /\ kind \in {"Cube", "HDFCube", "NewHDFCube"}
    /\ fn' = [name |-> "get_quadrant_dims", arg |-> <<div_nb, dimx, dimy>>,
              out |-> [q \in 0 .. (div_nb * div_nb - 1) |->
                         get_quadrant_dims(kind, q, div_nb, dimx, dimy)]]
    /\ ToolsUnchanged
    /\ UNCHANGED <<hdf, dest, trace>>

(***************************************************************************)
(* SpecQuad: get_quadrant_dims is called with any frame size up to MaxDim  *)
(* and any division up to MaxDiv.                                          *)
(***************************************************************************)
InitQuad ==
    /\ kind \in {"Cube", "HDFCube", "NewHDFCube"}
    /\ IdleCube

NextQuad ==
    \E div_nb \in 1 .. MaxDiv, dimx \in 1 .. MaxDim, dimy \in 1 .. MaxDim :
        QuadCall(div_nb, dimx, dimy)

SpecQuad == InitQuad /\ [][NextQuad]_vars

\* the pixel (x, y) lies in the rectangle r
InQuad(r, x, y) == r[1] <= x /\ x < r[2] /\ r[3] <= y /\ y < r[4]

RECURSIVE AreaSum(_, _)
AreaSum(out, q) ==
    IF q \notin DOMAIN out THEN 0
    ELSE (out[q][2] - out[q][1]) * (out[q][4] - out[q][3])
         + AreaSum(out, q + 1)

\* C16: the div_nb^2 rectangles returned for the quadrants 0 .. div_nb^2-1
\* lie within the frame, every pixel of the frame lies in exactly one of
\* them and their areas sum to dimx * dimy.
C16_ExactTiling ==
    fn.name = "get_quadrant_dims" =>
      LET div_nb == fn.arg[1]
          dimx == fn.arg[2]
          dimy == fn.arg[3]
      IN /\ DOMAIN fn.out = 0 .. (div_nb * div_nb - 1)
         /\ \A q \in DOMAIN fn.out :
               /\ 0 <= fn.out[q][1] /\ fn.out[q][1] <= fn.out[q][2]
               /\ fn.out[q][2] <= dimx
               /\ 0 <= fn.out[q][3] /\ fn.out[q][3] <= fn.out[q][4]
               /\ fn.out[q][4] <= dimy
         /\ \A x \in 0 .. (dimx - 1), y \in 0 .. (dimy - 1) :
               Cardinality({q \in DOMAIN fn.out : InQuad(fn.out[q], x, y)})
                 = 1
         /\ AreaSum(fn.out, 0) = dimx * dimy

\* the quadrants of a frame narrower than the division and of a height that
\* the division does not divide have been computed by Cube.get_quadrant_dims
C16_Witness ==
    /\ kind = "Cube"
    /\ fn.name = "get_quadrant_dims"
    /\ fn.arg = <<3, 2, 5>>
    /\ fn.out[8] = <<0, 2, 2, 5>>

(***************************************************************************)
(* Export of a cube to a container file: Cube.export with an HDF5 output   *)
(* (orb/core.py, through OutHDFCube) and FDCube.export (orb/cube.py,       *)
(* through RWHDFCube).  The candidate output paths are numbered: 0 is      *)
(* export_path, k > 0 is export_path with the suffix _(k-1).  A file is    *)
(* held as what the export can change in it; old tells that the file was   *)
(* there before the export.  The frames of the source cube are all there   *)
(* with the cube's shape.                                                  *)
(***************************************************************************)
MaxPaths == 3      \* number of candidate output paths

PathIds == 0 .. (MaxPaths - 1)

AbsentFile == [exists |-> FALSE, old |-> FALSE, shape |-> <<>>,
               frames |-> {}, headers |-> {}, extras |-> {}]

OldFile == [AbsentFile EXCEPT !.exists = TRUE, !.old = TRUE,
                              !.shape = CubeShape]

\* the while loop of OutHDFCube.__init__: the first suffixed path where no
\* file exists
RECURSIVE FreePath(_, _)
FreePath(files, p) ==
    IF ~files[p].exists THEN p ELSE FreePath(files, p + 1)

\* self.export_path after the first lines of OutHDFCube.__init__
MutOutPath(files, overwrite) == 0

OutPath(files, overwrite) ==
    IF ~overwrite /\ files[0].exists THEN FreePath(files, 1) ELSE 0

Entry(op, frame, path) == [op |-> op, frame |-> frame, path |-> path]

NoFrame == 0 - 1

ExportState(pos, path, iframe, n, read) ==
    [pos |-> pos, path |-> path, iframe |-> iframe, n |-> n, read |-> read]

InExport(pos) == fn.name = "export" /\ fn.out.pos = pos

\* the local ncpus of the batch that begins at iframe
ExportBatch(iframe) ==
    IF iframe + ncpus >= DimZ THEN DimZ - iframe ELSE ncpus

\* Cube.export: OutHDFCube(export_path, shape, overwrite=overwrite) opens
\* the file at the path it settled on and writes dimx, dimy, dimz
CoreExportCreate(overwrite) ==
    LET p == OutPath(dest, overwrite)
    IN
    /\ kind \in {"Cube", "HDFCube"}
    /\ fn.name = "none"
    /\ dest' = [dest EXCEPT ![p].exists = TRUE, ![p].shape = CubeShape]
    /\ trace' = <<Entry("create", NoFrame, p)>>
    /\ fn' = [name |-> "export",
              arg |-> [overwrite |-> overwrite, mask |-> FALSE],
              out |-> ExportState("created", p, 0, 0, {})]
    /\ ToolsUnchanged
    /\ UNCHANGED hdf

\* outcube.append_image_list(self.image_list); _init_pp_server()
CoreExportImageList ==
    /\ kind \in {"Cube", "HDFCube"}
    /\ InExport("created")
    /\ dest' = [dest EXCEPT ![fn.out.path].extras = @ \cup {"image_list"}]
    /\ trace' = Append(trace, Entry("image_list", NoFrame, fn.out.path))
    /\ fn' = [fn EXCEPT !.out.pos = "batch", !.out.n = ExportBatch(0)]
    /\ ToolsUnchanged
    /\ UNCHANGED hdf

\* one job of the batch runs self.get_data(..., z, z + 1); the jobs of a
\* batch are all submitted before the first is collected
CoreExportRead(f) ==
    /\ kind \in {"Cube", "HDFCube"}
    /\ InExport("batch")
    /\ f \in fn.out.iframe .. (fn.out.iframe + fn.out.n - 1)
    /\ f \notin fn.out.read
    /\ trace' = Append(trace, Entry("read", f, NoFrame))
    /\ fn' = [fn EXCEPT
                !.out.read = @ \cup {f},
                !.out.pos = IF Cardinality(fn.out.read) + 1 = fn.out.n
                            THEN "write" ELSE "batch"]
    /\ ToolsUnchanged
    /\ UNCHANGED <<hdf, dest>>

\* outcube.write_frame(index, data=..., header=...): the data, then the
\* header of the frame; the frames of the batch in ascending order
CoreExportWrite ==
    LET p == fn.out.path
        f == fn.out.iframe + (fn.out.n - Cardinality(fn.out.read))
        left == fn.out.read \ {f}
        next == fn.out.iframe + fn.out.n
    IN
    /\ kind \in {"Cube", "HDFCube"}
    /\ InExport("write")
    /\ dest' = [dest EXCEPT ![p].frames = @ \cup {f},
                            ![p].headers = @ \cup {f}]
    /\ trace' = trace \o <<Entry("write", f, p), Entry("frame_header", f, p)>>
    /\ fn' = IF left # {} THEN [fn EXCEPT !.out.read = left]
             ELSE IF next < DimZ
             THEN [fn EXCEPT !.out = ExportState("batch", p, next,
                                                 ExportBatch(next), {})]
             ELSE [fn EXCEPT !.out = ExportState("close", p, next, 0, {})]
    /\ ToolsUnchanged
    /\ UNCHANGED hdf

\* self._close_pp_server(job_server); outcube.close()
CoreExportClose ==
    /\ kind \in {"Cube", "HDFCube"}
    /\ InExport("close")
    /\ trace' = Append(trace, Entry("close", NoFrame, fn.out.path))
    /\ fn' = [fn EXCEPT !.out.pos = "done"]
    /\ ToolsUnchanged
    /\ UNCHANGED <<hdf, dest>>

\* FDCube.export: RWHDFCube(export_path, shape=(dimx, dimy, dimz))
FDExportCreate(mask) ==
    LET case == InitCase(dest[0].exists, CubeShape)
    IN
    /\ kind = "FDCube"
    /\ fn.name = "none"
    /\ dest' = IF case = "create"
               THEN [dest EXCEPT ![0].exists = TRUE, ![0].shape = CubeShape]
               ELSE dest
    /\ trace' = IF case = "create" THEN <<Entry("create", NoFrame, 0)>>
                ELSE <<>>
    /\ fn' = [name |-> "export",
              arg |-> [overwrite |-> FALSE, mask |-> mask],
              out |-> ExportState(IF case # "create" THEN "failed"
                                  ELSE IF mask THEN "mask" ELSE "header",
                                  0, 0, 1, {})]
    /\ ToolsUnchanged
    /\ UNCHANGED hdf

\* if mask is not None: cube.set_mask(mask)
FDExportMask ==
    /\ kind = "FDCube"
    /\ InExport("mask")
    /\ dest' = [dest EXCEPT ![0].extras = @ \cup {"mask"}]
    /\ trace' = Append(trace, Entry("mask", NoFrame, 0))
    /\ fn' = [fn EXCEPT !.out.pos = "header"]
    /\ ToolsUnchanged
    /\ UNCHANGED hdf

\* cube.set_header(self.get_cube_header())
FDExportHeader ==
    /\ kind = "FDCube"
    /\ InExport("header")
    /\ dest' = [dest EXCEPT ![0].extras = @ \cup {"header"}]
    /\ trace' = Append(trace, Entry("header", NoFrame, 0))
    /\ fn' = [fn EXCEPT !.out.pos = "batch"]
    /\ ToolsUnchanged
    /\ UNCHANGED hdf

\* cube[:,:,iframe] = self[:,:,iframe]
FDExportFrame ==
    LET f == fn.out.iframe
    IN
    /\ kind = "FDCube"
    /\ InExport("batch")
    /\ dest' = [dest EXCEPT ![0].frames = @ \cup {f}]
    /\ trace' = trace \o <<Entry("read", f, NoFrame), Entry("write", f, 0)>>
    /\ fn' = [fn EXCEPT !.out.pos = "write"]
    /\ ToolsUnchanged
    /\ UNCHANGED hdf

\* cube.set_frame_header(iframe, self.get_frame_header(iframe)); the
\* method returns after the last frame
FDExportFrameHeader ==
    LET f == fn.out.iframe
    IN
    /\ kind = "FDCube"
    /\ InExport("write")
    /\ dest' = [dest EXCEPT ![0].headers = @ \cup {f}]
    /\ trace' = Append(trace, Entry("frame_header", f, 0))
    /\ fn' = [fn EXCEPT !.out.iframe = f + 1,
                        !.out.pos = IF f + 1 < DimZ THEN "batch" ELSE "done"]
    /\ ToolsUnchanged
    /\ UNCHANGED hdf

(***************************************************************************)
(* SpecExport: one export of a cube of DimZ frames, to a path where a file *)
(* may exist, as may files at the suffixed paths (the last candidate path  *)
(* is free).                                                               *)
(***************************************************************************)
InitExport ==
    /\ kind \in {"Cube", "HDFCube", "FDCube"}
    /\ strict = FALSE
    /\ pixel_base = 0
    /\ prebinning = 1
    /\ mask_exists = FALSE
    /\ parallel = (kind = "Cube")
    /\ ncpus \in IF kind = "FDCube" THEN {1} ELSE 1 .. MaxCpus
    /\ frame_files = GoodFrames
    /\ InitRead
    /\ h5 = NoContainer
    /\ obj = "none"
    /\ written = [f \in Frames |-> NoValue]
    /\ hdf = OldContainer(DimX, DimY, DimZ, Frames, <<DimX, DimY>>)
    /\ dest \in {d \in [PathIds -> {AbsentFile, OldFile}] :
                   /\ d[MaxPaths - 1] = AbsentFile
                   /\ kind = "FDCube" => \A p \in PathIds \ {0} :
                                            d[p] = AbsentFile}
    /\ trace = <<>>
    /\ fn = NoCall

ExportCreate ==
    \/ \E overwrite \in BOOLEAN : CoreExportCreate(overwrite)
    \/ \E mask \in BOOLEAN : FDExportCreate(mask)

CoreExportStep ==
    \/ CoreExportImageList
    \/ \E f \in Frames : CoreExportRead(f)
    \/ CoreExportWrite
    \/ CoreExportClose

FDExportStep ==
    \/ FDExportMask
    \/ FDExportHeader
    \/ FDExportFrame
    \/ FDExportFrameHeader

NextExport ==
    \/ ExportCreate
    \/ CoreExportStep
    \/ FDExportStep

SpecExport == InitExport /\ [][NextExport]_vars

\* positions of the trace where op is made on frame f
At(op, f) ==
    {i \in 1 .. Len(trace) : trace[i].op = op /\ trace[i].frame = f}

Ops(ops) == {i \in 1 .. Len(trace) : trace[i].op \in ops}

Before(S, T) == \A i \in S, j \in T : i < j

\* C17: in an export the destination is created before any other step, the
\* mask and the cube header are written before the first frame, the frames
\* are read in ascending order, frame i is read, then written, then its
\* header is written, all three before frame i+1 is read, and nothing
\* follows the close.
C17_StepOrder ==
    /\ Before(Ops({"create"}), Ops({"image_list", "mask", "header", "read",
                                    "write", "frame_header", "close"}))
    /\ trace # <<>> => trace[1].op = "create"
    /\ Before(Ops({"mask", "header"}), Ops({"write"}))
    /\ \A f \in Frames :
          /\ Before(At("read", f), At("write", f))
          /\ Before(At("write", f), At("frame_header", f))
          /\ At("write", f) # {} => At("read", f) # {}
          /\ At("frame_header", f) # {} => At("write", f) # {}
          /\ \A g \in Frames :
                f < g => /\ Before(At("read", f), At("read", g))
                         /\ At("read", g) # {}
                            => /\ At("frame_header", f) # {}
                               /\ Before(At("frame_header", f),
                                         At("read", g))
    /\ Before(Ops({"image_list", "mask", "header", "read", "write",
                   "frame_header"}), Ops({"close"}))

\* C18: in an export that may not overwrite, a file that was there before
\* the export is never written; an export that fails has made no step; an
\* export that reads a frame has settled before on a path where no file
\* was, and every write of the export goes to that path.
C18_NoOverwrite ==
    (fn.name = "export" /\ ~fn.arg.overwrite) =>
      /\ \A p \in PathIds : dest[p].old => dest[p] = OldFile
      /\ fn.out.pos = "failed" => trace = <<>>
      /\ \A i \in 1 .. Len(trace) :
            trace[i].path # NoFrame => trace[i].path = fn.out.path
      /\ Ops({"read"}) # {}
         => /\ trace[1] = Entry("create", NoFrame, fn.out.path)
            /\ dest[fn.out.path].exists /\ ~dest[fn.out.path].old

\* Cube.export has copied every frame to the second suffixed path, files
\* being there at the export path and at the first suffixed path
C18_Witness ==
    /\ fn.name = "export" /\ ~fn.arg.overwrite
    /\ fn.out.pos = "done"
    /\ dest[0] = OldFile /\ dest[1] = OldFile
    /\ fn.out.path = 2
    /\ dest[2].frames = Frames /\ dest[2].headers = Frames

(***************************************************************************)
(* Tools.sort_image_list.  A file name is held as the numbers found in it  *)
(* (re.findall("[0-9]+", path)), in order: file_keys is the list of these  *)
(* rows, which all have the same length.                                   *)
(***************************************************************************)
MaxFiles == 3      \* largest number of files of a list
MaxCols == 2       \* largest number of numbers in a file name
MaxKey == 3        \* largest number in a file name

\* np.sum(file_keys == file_keys[0,:], axis=0)[c]
SameAsFirst(file_keys, c) ==
    Cardinality({i \in 1 .. Len(file_keys) :
                   file_keys[i][c] = file_keys[1][c]})

\* np.min(test)
MinTest(file_keys) ==
    LET cols == 1 .. Len(file_keys[1])
    IN CHOOSE v \in {SameAsFirst(file_keys, c) : c \in cols} :
         \A c \in cols : v <= SameAsFirst(file_keys, c)

\* np.argmin(test): the first column where the minimum is found
ArgMinTest(file_keys) ==
    LET cols == 1 .. Len(file_keys[1])
    IN CHOOSE c \in cols :
         /\ SameAsFirst(file_keys, c) = MinTest(file_keys)
         /\ \A d \in cols :
               SameAsFirst(file_keys, d) = MinTest(file_keys) => c <= d

\* file_list.sort(key=...): the sort is stable; the result is the list of
\* the positions the files had in file_list
SortByColumn(file_keys, c) ==
    LET n == Len(file_keys)
        Rank(i) == Cardinality({j \in 1 .. n :
                      \/ file_keys[j][c] < file_keys[i][c]
                      \/ file_keys[j][c] = file_keys[i][c] /\ j < i})
    IN [r \in 1 .. n |-> CHOOSE i \in 1 .. n : Rank(i) = r - 1]

sort_image_list(file_keys) ==
    IF MinTest(file_keys) > 1
    THEN [status |-> "error", column |-> 0, list |-> <<>>]
    ELSE [status |-> "sorted", column |-> ArgMinTest(file_keys),
          list |-> SortByColumn(file_keys, ArgMinTest(file_keys))]

SortCall(file_keys) ==
    /\ fn.name = "none"
    /\ fn' = [name |-> "sort_image_list", arg |-> file_keys,
              out |-> sort_image_list(file_keys)]
    /\ ToolsUnchanged
    /\ UNCHANGED <<hdf, dest, trace>>

(***************************************************************************)
(* SpecSort: sort_image_list is called once, on a list of 1 .. MaxFiles   *)
(* files whose names hold 1 .. MaxCols numbers in 1 .. MaxKey.             *)
(***************************************************************************)
KeyLists ==
    UNION { [1 .. n -> [1 .. c -> 1 .. MaxKey]] :
              n \in 1 .. MaxFiles, c \in 1 .. MaxCols }

InitSort ==
    /\ kind = "Cube"
    /\ IdleCube

NextSort == \E file_keys \in KeyLists : SortCall(file_keys)

SpecSort == InitSort /\ [][NextSort]_vars

\* C19: sort_image_list returns an order only for a list in which no two
\* files have the same number in the column it sorts by.
C19_DuplicateRaises ==
    (fn.name = "sort_image_list" /\ fn.out.status = "sorted")
    => \A i, j \in 1 .. Len(fn.arg) :
          i # j => fn.arg[i][fn.out.column] # fn.arg[j][fn.out.column]

\* C20: a read of a frame-list cube returns an array only if every frame
\* file of the requested z range that exists has the (dimx, dimy) of the
\* cube.
C20_MisShapedRaises ==
    (ReturnedArray /\ FrameList)
    => \A f \in Range \cap Frames :
          frame_files[f].present
          => /\ frame_files[f].nx = GoodFrame.nx
             /\ frame_files[f].ny = GoodFrame.ny

\* C21: a multi-frame read of a frame-list cube that returns an array has
\* read every frame of its range: no job of the read has failed, and no
\* slice of the result stands for a frame that was not read.
C21_AllOrNothing ==
    (ReturnedArray /\ FrameList /\ MultiFrame)
    => /\ Range \subseteq hist.done
       /\ \A j \in 1 .. Len(jobs) : ~jobs[j].failed
       /\ \A k \in 1 .. Len(result.frames) :
             result.frames[k] # NaNs(Width, Height)

\* the mask of a container: the array of the dataset 'mask', in (x, y)
\* order
GlobalMask == HdfFrame(0, "mask")

\* a * mask, the excluded pixels (mask 0) set to not-a-number
Masked(a, m) ==
    Arr(a.n0, a.n1,
        LAMBDA i, j : IF m.px[<<i, j>>] = 0 THEN NaN ELSE a.px[<<i, j>>])

\* C22: on a container that holds a mask, a read with keys that lie on the
\* axes returns an array, and slice k of it is the section of frame s + k
\* with not-a-number at the pixels the mask excludes.
C22_MaskApplied ==
    (/\ kind \in {"HDFCube", "NewHDFCube"}
     /\ mask_exists
     /\ call.name = "getitem" /\ pc \in {"returned", "raised"}
     /\ ~OutOfRange(call.key[1], DimX)
     /\ ~OutOfRange(call.key[2], DimY)
     /\ ~OutOfRange(call.key[3], DimZ)
     /\ \A f \in Frames : frame_files[f] = GoodFrame)
    => /\ ReturnedArray
       /\ \A k \in 1 .. Len(result.frames) :
             result.frames[k] =
                Masked(NpSection(HdfFrame(z_slice.start + k - 1, "data"),
                                 x_slice, y_slice),
                       NpSection(GlobalMask, x_slice, y_slice))

(***************************************************************************)
(* The aggregates of a container cube: the deep frame (mean image) and the *)
(* energy map, kept in the datasets 'deep_frame' and 'energy_map'.  The    *)
(* container is h5; its frames are uniform.  An aggregate that is computed *)
(* is held as its numerator: the sum over the frames stands for the mean.  *)
(* The outcome of an accessor tells what it returned and which frames it   *)
(* read.                                                                   *)
(***************************************************************************)
Aggregate(status, value, scanned) ==
    [status |-> status, value |-> value, scanned |-> scanned]

RECURSIVE FrameSum(_, _)
FrameSum(file, f) ==
    IF f \notin DOMAIN file.frames THEN 0
    ELSE file.frames[f] + FrameSum(file, f + 1)

\* Cube.get_mean_image (orb/core.py): every frame is read with
\* get_data_frame and summed
ScanMean(file) ==
    Aggregate("array", Uniform(<<file.shape[1], file.shape[2]>>,
                               FrameSum(file, 0)), DOMAIN file.frames)

HasDataset(file, name) == file.sets[Path(name)] # NoData

\* HDFCube.get_mean_image() (orb/core.py)
CoreGetMeanImage(file) ==
    IF HasDataset(file, "deep_frame")
    THEN Aggregate("array", file.sets[Path("deep_frame")], {})
    ELSE ScanMean(file)

\* sum over the frames of (den * frame - num)^2: den^2 times the sum of
\* the squared deviations from the mean num / den
RECURSIVE DevSum(_, _, _, _)
DevSum(file, num, den, f) ==
    IF f \notin DOMAIN file.frames THEN 0
    ELSE (den * file.frames[f] - num) * (den * file.frames[f] - num)
         + DevSum(file, num, den, f + 1)

\* HDFCube.get_interf_energy_map() (orb/core.py): the stored map, or
\* Cube.get_interf_energy_map: the mean image (stored or computed), then
\* every frame; the map is held as the sum of the squared deviations
CoreGetEnergyMap(file) ==
    IF HasDataset(file, "energy_map")
    THEN Aggregate("array", file.sets[Path("energy_map")], {})
    ELSE LET mean == CoreGetMeanImage(file)
             den == IF mean.scanned = {} THEN 1
                    ELSE Cardinality(DOMAIN file.frames)
         IN Aggregate("array",
                      Uniform(<<file.shape[1], file.shape[2]>>,
                              DevSum(file, mean.value.value, den, 0)),
                      DOMAIN file.frames)

\* HDFCube.get_dataset(path, protect) (orb/cube.py): protect is not used
GetDataset(file, name) ==
    IF name \in protected_datasets \/ name = "data"
       \/ ~HasDataset(file, name)
    THEN Aggregate("error", NoData, {})
    ELSE Aggregate("array", file.sets[Path(name)], {})

\* HDFCube.get_deep_frame(recompute) (orb/cube.py), new architecture
NewGetDeepFrame(file, recompute) ==
    IF ~recompute
    THEN IF HasDataset(file, "deep_frame")
         THEN GetDataset(file, "deep_frame")
         ELSE \* raise NotImplementedError()
              Aggregate("error", NoData, {})
    ELSE \* the method ends without a return statement
         Aggregate("none", NoData, {})

\* HDFCube.get_interf_energy_map(recompute) (orb/cube.py): the stored map,
\* or get_mean_image (not defined in the class: it raises or returns,
\* has_mean), the loop over every frame and f['energy_map'] = ..., which
\* raises NameError
NewGetEnergyMap(file, recompute, has_mean) ==
    IF ~recompute /\ HasDataset(file, "energy_map")
    THEN GetDataset(file, "energy_map")
    ELSE IF has_mean THEN Aggregate("error", NoData, DOMAIN file.frames)
    ELSE Aggregate("error", NoData, {})

\* one call of an aggregate accessor of the cube on its container
GetAggregate(name, recompute, has_mean) ==
    /\ kind \in {"HDFCube", "NewHDFCube"}
    /\ kind = "HDFCube" => ~recompute /\ ~has_mean
    /\ name = "deep_frame" => ~has_mean
    /\ fn' = [name |-> name, arg |-> recompute,
              out |-> IF kind = "HDFCube"
                      THEN IF name = "deep_frame" THEN CoreGetMeanImage(h5)
                           ELSE CoreGetEnergyMap(h5)
                      ELSE IF name = "deep_frame"
                           THEN NewGetDeepFrame(h5, recompute)
                           ELSE NewGetEnergyMap(h5, recompute, has_mean)]
    /\ ToolsUnchanged
    /\ UNCHANGED <<hdf, dest, trace>>

(***************************************************************************)
(* SpecAggregate: the aggregate accessors are called on a container that   *)
(* holds a deep frame, an energy map, both or none.                        *)
(***************************************************************************)
StoredAggregate(v) == Uniform(<<DimX, DimY>>, v)

AggregateFiles(level2) ==
    { [NewContainer(CubeShape) EXCEPT
         !.level2 = level2,
         !.frames = frames,
         !.sets[Path("deep_frame")] = deep,
         !.sets[Path("energy_map")] = energy] :
        frames \in {[f \in Frames |-> 1], [f \in Frames |-> f + 1],
                    [f \in Frames |-> 2 * f]},
        deep \in {NoData, StoredAggregate(7)},
        energy \in {NoData, StoredAggregate(9)} }

InitAggregate ==
    /\ kind \in {"HDFCube", "NewHDFCube"}
    /\ strict = FALSE
    /\ pixel_base = 0
    /\ prebinning = 1
    /\ mask_exists = FALSE
    /\ parallel = FALSE
    /\ ncpus = 1
    /\ frame_files = GoodFrames
    /\ InitRead
    /\ h5 \in AggregateFiles(kind = "NewHDFCube")
    /\ obj = "none"
    /\ written = [f \in Frames |-> NoValue]
    /\ InitTools

NextAggregate ==
    \E name \in {"deep_frame", "energy_map"}, recompute \in BOOLEAN,
       has_mean \in BOOLEAN : GetAggregate(name, recompute, has_mean)

SpecAggregate == InitAggregate /\ [][NextAggregate]_vars

Accessor == fn.name \in {"deep_frame", "energy_map"}

\* C23: an aggregate accessor called without recompute on a container that
\* does not hold the aggregate raises and reads no frame; an accessor
\* reads frames only when recompute is asked.
C23_NoImplicitScan ==
    (Accessor /\ ~fn.arg)
    => /\ ~HasDataset(h5, fn.name)
          => (fn.out.status = "error" /\ fn.out.scanned = {})
       /\ fn.out.scanned = {}

\* C24: an aggregate accessor called without recompute on a container that
\* holds the aggregate returns the stored array and reads no frame.
C24_CachedVerbatim ==
    (Accessor /\ ~fn.arg /\ HasDataset(h5, fn.name))
    => /\ fn.out.status = "array"
       /\ fn.out.value = h5.sets[Path(fn.name)]
       /\ fn.out.scanned = {}

\* C25: a read whose keys ask, once resolved (integer i as [i, i+1),
\* missing start as 0, missing stop as the extent, negative stop counted
\* from the extent), for a range that lies on the axes resolves each key to
\* that range, and the two frame-list classes resolve the key alike.
C25_SameResolution ==
    (/\ FrameList /\ call.name = "getitem" /\ pc # "idle"
     /\ ~OutOfRange(call.key[1], DimX)
     /\ ~OutOfRange(call.key[2], DimY)
     /\ ~OutOfRange(call.key[3], DimZ))
    => /\ x_slice = Resolved(call.key[1], DimX)
       /\ y_slice = Resolved(call.key[2], DimY)
       /\ z_slice = Resolved(call.key[3], DimZ)
       /\ CoreDefaultSlice(call.key[3], DimZ)
            = FDDefaultSlice(call.key[3], DimZ)

(***************************************************************************)
(* Output container of the old architecture: OutHDFCube (orb/core.py),     *)
(* written frame by frame or by Cube.export over a z range, then opened    *)
(* again as an HDFCube.  hdf is the file: its attributes, the frame        *)
(* groups in it, the shape of the data of frame00000 and, for every frame  *)
(* group, the source frame its data and header come from.                  *)
(***************************************************************************)
OutFile(dimx, dimy, dimz, slots, shape0, from) ==
    [dimx |-> dimx, dimy |-> dimy, dimz |-> dimz, slots |-> slots,
     shape0 |-> shape0, from |-> from]

\* OutHDFCube.__init__: the attributes dimx, dimy, dimz are written to a
\* file that holds no frame
NewOutFile(dimz) == OutFile(DimX, DimY, dimz, {}, <<>>, <<>>)

\* the agreement of the data with self.imshape in write_frame
ShapeAccepted(file, shape) == shape = <<file.dimx, file.dimy>>

\* OutHDFCube.write_frame(index, data=..., header=...) with no section:
\* data of another shape than imshape raises; the datasets
\* frame<index>/data and frame<index>/header are replaced or created
WriteFrame(file, index, shape, src) ==
    IF ~ShapeAccepted(file, shape) THEN file
    ELSE [file EXCEPT
            !.slots = @ \cup {index},
            !.shape0 = IF index = 0 THEN shape ELSE @,
            !.from = [i \in (DOMAIN @) \cup {index} |->
                        IF i = index THEN src ELSE @[i]]]

\* the frames zmin + k .. zmax - 1 written one after the other by the
\* batches of Cube.export
RECURSIVE ExportFrames(_, _, _, _)
ExportFrames(file, zmin, zmax, k) ==
    IF zmin + k >= zmax THEN file
    ELSE ExportFrames(WriteFrame(file, zmin + k, <<DimX, DimY>>, zmin + k),
                      zmin, zmax, k + 1)

\* Cube.export(path, z_range=(zmin, zmax), force_hdf5=True)
CoreExportRange(zmin, zmax) ==
    ExportFrames(NewOutFile(zmax - zmin), zmin, zmax, 0)

OutUnchanged ==
    UNCHANGED <<cfg_vars, call_vars, loop_vars, fs_vars, return_mask, pc,
                data, pool, result, ncalls, h5, written, dest, trace>>

\* outcube = OutHDFCube(path, (dimx, dimy, dimz))
OutCreate(dimz) ==
    /\ obj = "none"
    /\ hdf' = NewOutFile(dimz)
    /\ obj' = "out"
    /\ fn' = [name |-> "create", arg |-> <<dimz>>, out |-> "done"]
    /\ OutUnchanged

\* outcube.write_frame(index, data=<array of the shape>, header=...)
OutWriteFrame(index, shape) ==
    /\ obj = "out"
    /\ Cardinality(hdf.slots) < MaxCalls
    /\ hdf' = WriteFrame(hdf, index, shape, NoFrame)
    /\ fn' = [name |-> "write_frame",
              arg |-> [index |-> index, shape |-> shape, file |-> hdf],
              out |-> IF ShapeAccepted(hdf, shape) THEN "done"
                      ELSE "raised"]
    /\ UNCHANGED obj
    /\ OutUnchanged

\* outcube.close()
OutClose ==
    /\ obj = "out"
    /\ obj' = "closed"
    /\ UNCHANGED <<hdf, fn>>
    /\ OutUnchanged

\* cube.export(path, z_range=(zmin, zmax), force_hdf5=True) on a frame-list
\* cube of DimZ frames, to a path where no file exists
OutExport(zmin, zmax) ==
    /\ obj = "none"
    /\ hdf' = CoreExportRange(zmin, zmax)
    /\ obj' = "closed"
    /\ fn' = [name |-> "export", arg |-> [zmin |-> zmin, zmax |-> zmax],
              out |-> "done"]
    /\ OutUnchanged

\* HDFCube(path) on the closed file
OutOpen ==
    /\ obj = "closed"
    /\ obj' = IF OpenChecks(hdf) THEN "open" ELSE "failed"
    /\ UNCHANGED <<hdf, fn>>
    /\ OutUnchanged

(***************************************************************************)
(* SpecOut: an output container is created and frames are written to it   *)
(* at indexes from -1 to dimz, with data of the right or of another        *)
(* shape, or a frame-list cube of DimZ frames is exported over a z range;  *)
(* the closed file is then opened as an HDFCube.                           *)
(***************************************************************************)
InitOut ==
    /\ kind = "Cube"
    /\ strict = FALSE
    /\ pixel_base = 0
    /\ prebinning = 1
    /\ mask_exists = FALSE
    /\ parallel = TRUE
    /\ ncpus = 1
    /\ frame_files = GoodFrames
    /\ InitRead
    /\ h5 = NoContainer
    /\ obj = "none"
    /\ written = [f \in Frames |-> NoValue]
    /\ hdf = NewOutFile(0)
    /\ dest = <<>>
    /\ trace = <<>>
    /\ fn = NoCall

NextOut ==
    \/ \E dimz \in 1 .. DimZ : OutCreate(dimz)
    \/ \E index \in (0 - 1) .. DimZ, shape \in Shapes0 :
          OutWriteFrame(index, shape)
    \/ OutClose
    \/ \E zmin \in 0 .. (DimZ - 1), zmax \in 1 .. DimZ :
          zmin < zmax /\ OutExport(zmin, zmax)
    \/ OutOpen

SpecOut == InitOut /\ [][NextOut]_vars

\* C26: a write_frame whose index is outside [0, dimz) or whose data has
\* another shape than (dimx, dimy) raises and leaves the file as it was;
\* the frame groups of an output container always have indexes within
\* [0, dimz) and are at most dimz.
C26_SlotsWithinShape ==
    /\ obj # "none"
       => /\ hdf.slots \subseteq 0 .. (hdf.dimz - 1)
          /\ Cardinality(hdf.slots) <= hdf.dimz
    /\ (/\ fn.name = "write_frame"
        /\ \/ fn.arg.index \notin 0 .. (hdf.dimz - 1)
           \/ fn.arg.shape # <<hdf.dimx, hdf.dimy>>)
       => (fn.out = "raised" /\ hdf = fn.arg.file)

\* C30: the file made by an export over [zmin, zmax) declares
\* dimz = zmax - zmin, holds the frame groups 0 .. zmax - zmin - 1, its
\* frame k comes from the source frame zmin + k, and its opening as an
\* HDFCube does not raise.
C30_ExportOpens ==
    fn.name = "export"
    => /\ hdf.dimz = fn.arg.zmax - fn.arg.zmin
       /\ hdf.slots = 0 .. (fn.arg.zmax - fn.arg.zmin - 1)
       /\ \A k \in hdf.slots : hdf.from[k] = fn.arg.zmin + k
       /\ obj # "failed"

\* C29: with a prebinning above 1, the section returned by a read that was
\* served from STORED/ is the section of the binned content of the file of
\* that frame and of that slot (the mask file in mask mode, the data file
\* otherwise).
C29_CacheIsolation ==
    (prebinning > 1 /\ hit_read.valid)
    => hit_read.section =
          NpSection(bin_image(Transpose(IF hit_read.rm
                                        THEN MaskData(hit_read.frame)
                                        ELSE RawData(hit_read.frame)),
                              prebinning),
                    hit_read.xs, hit_read.ys)

(***************************************************************************)
(* File handles.  trace is here the sequence of the handles opened and     *)
(* closed: Entry("open", f, NoFrame) for the file of frame f, frame        *)
(* NoFrame for the one file of a container cube.  A handle that is not     *)
(* closed by the code stays open until its object is reclaimed, which may  *)
(* happen at the return of the method or later; a handle referenced by the *)
(* frames of a pending exception is still open when the method raises.     *)
(***************************************************************************)
HandleIds == Frames \cup {NoFrame}

OpenHandles ==
    {f \in HandleIds :
        Cardinality(At("open", f)) > Cardinality(At("close", f))}

Opened(f) == <<Entry("open", f, NoFrame)>>

Closed(f) == <<Entry("close", f, NoFrame)>>

HandleUnchanged ==
    UNCHANGED <<cfg_vars, call_vars, loop_vars, fs_vars, return_mask, pc,
                data, pool, result, ncalls, h5, obj, written, hdf, dest>>

\* Cube._get_frame_section / FDCube._get_frame_section on a FITS frame:
\* hdu = read_fits(..., return_hdu_only=True) opens the file, the section
\* is read, 'del hdu' drops the name; no close() is called
SectionHandle(f, reclaimed) ==
    LET out == FrameSection(kind, Slice(0, DimX), Slice(0, DimY), f, FALSE)
    IN
    /\ kind \in {"Cube", "FDCube"}
    /\ Len(trace) < 2 * MaxCalls
    /\ trace' = trace \o (IF out.opened = "none" THEN <<>>
                          ELSE IF out.ok /\ reclaimed
                          THEN Opened(f) \o Closed(f)
                          ELSE Opened(f))
    /\ fn' = [name |-> "getitem", arg |-> f,
              out |-> IF out.ok THEN "returned" ELSE "raised"]
    /\ HandleUnchanged

\* Cube.get_frame_header / FDCube.get_frame_header on a FITS frame:
\* hdu = read_fits(..., return_hdu_only=True); return hdu[0].header
HeaderHandle(f, reclaimed) ==
    /\ kind \in {"Cube", "FDCube"}
    /\ Len(trace) < 2 * MaxCalls
    /\ trace' = trace \o (IF ~frame_files[f].present THEN <<>>
                          ELSE IF reclaimed THEN Opened(f) \o Closed(f)
                          ELSE Opened(f))
    /\ fn' = [name |-> "get_frame_header", arg |-> f,
              out |-> IF frame_files[f].present THEN "returned"
                      ELSE "raised"]
    /\ HandleUnchanged

\* the accessors of the container cubes (HDFCube of orb/core.py and of
\* orb/cube.py): the body runs in 'with self.open_hdf5(...) as f', which
\* closes the file when the body returns and when it raises
ContainerHandle(name, fails) ==
    /\ kind \in {"HDFCube", "NewHDFCube"}
    /\ Len(trace) < 2 * MaxCalls
    /\ trace' = trace \o Opened(NoFrame) \o Closed(NoFrame)
    /\ fn' = [name |-> name, arg |-> NoFrame,
              out |-> IF fails THEN "raised" ELSE "returned"]
    /\ HandleUnchanged

HandleOps == {"getitem", "get_frame_header", "get_attribute"}

(***************************************************************************)
(* SpecHandle: up to MaxCalls reads, frame-header or attribute accesses on *)
(* a frame-list cube, one of whose frames may be missing or of another     *)
(* shape, or on a container cube.                                          *)
(***************************************************************************)
InitHandle ==
    /\ kind \in {"Cube", "FDCube", "HDFCube", "NewHDFCube"}
    /\ strict \in BOOLEAN
    /\ pixel_base = 0
    /\ prebinning = 1
    /\ mask_exists = FALSE
    /\ parallel = FALSE
    /\ ncpus = 1
    /\ frame_files \in FrameSets
    /\ InitCall

NextHandle ==
    \/ \E f \in Frames, reclaimed \in BOOLEAN : SectionHandle(f, reclaimed)
    \/ \E f \in Frames, reclaimed \in BOOLEAN : HeaderHandle(f, reclaimed)
    \/ \E name \in HandleOps, fails \in BOOLEAN :
          ContainerHandle(name, fails)

SpecHandle == InitHandle /\ [][NextHandle]_vars

\* C27: when a read, a frame-header access or an attribute access on a
\* cube has returned or raised, no file handle opened by it is open.
C27_NoOpenHandle ==
    fn.name \in HandleOps => OpenHandles = {}

(***************************************************************************)
(* Construction of a frame-list cube from a manifest: Cube.__init__        *)
(* (orb/core.py, which always sorts the list) and FDCube.__init__          *)
(* (orb/cube.py) called with no_sort=True.  The image mode is 'spiomm',    *)
(* the mode that has companion bias frames.  A line of the manifest is     *)
(* held as what the code tests on it: '#' in it, '_bias' in it, '.fits'    *)
(* in it, and the number found in its name.                                *)
(***************************************************************************)
ManifestLine(hash, bias, fits, key) ==
    [hash |-> hash, bias |-> bias, fits |-> fits, key |-> key]

\* "frame<n>.fits"
FrameLine(n) == ManifestLine(FALSE, FALSE, TRUE, n)

\* "frame<n>_bias.fits"
BiasLine(n) == ManifestLine(FALSE, TRUE, TRUE, n)

\* "# spiomm"
DirectiveLine == ManifestLine(TRUE, FALSE, FALSE, 0)

\* ""
BlankLine == ManifestLine(FALSE, FALSE, FALSE, 0)

InitFailed == [status |-> "error", image_list |-> <<>>, dimz |-> 0]

\* the loop over image_name_list: before the first image a line with '#'
\* is a directive and the first other line that is no bias frame is
\* decoded (a line that is no path of a FITS file raises); after it every
\* line that is no bias frame is appended
RECURSIVE ManifestLoop(_, _, _, _)
ManifestLoop(lines, i, is_first_image, image_list) ==
    IF i > Len(lines)
    THEN [status |-> IF is_first_image THEN "error" ELSE "ok",
          image_list |-> image_list, dimz |-> Len(image_list)]
    ELSE LET image_name == lines[i]
             spiomm_bias_frame == image_name.bias
         IN IF is_first_image
            THEN IF image_name.hash
                 THEN ManifestLoop(lines, i + 1, TRUE, image_list)
                 ELSE IF ~spiomm_bias_frame
                 THEN IF ~image_name.fits THEN InitFailed
                      ELSE ManifestLoop(lines, i + 1, FALSE, <<image_name>>)
                 ELSE ManifestLoop(lines, i + 1, TRUE, image_list)
            ELSE IF ~spiomm_bias_frame
                 THEN ManifestLoop(lines, i + 1, FALSE,
                                   Append(image_list, image_name))
                 ELSE ManifestLoop(lines, i + 1, FALSE, image_list)

IsFitsPath(line) == line.fits

NotBias(line) == ~line.bias

\* Tools.sort_image_list(file_list, 'spiomm') on the names themselves: the
\* names without '.fits' and the bias frames are dropped, the others are
\* sorted by their number
SortedImageList(file_list) ==
    LET kept == SelectSeq(SelectSeq(file_list, IsFitsPath), NotBias)
        keys == [i \in 1 .. Len(kept) |-> <<kept[i].key>>]
    IN IF Len(kept) = 0 THEN InitFailed
       ELSE IF sort_image_list(keys).status = "error" THEN InitFailed
       ELSE [status |-> "ok",
             image_list |-> [r \in 1 .. Len(kept) |->
                               kept[sort_image_list(keys).list[r]]],
             dimz |-> Len(kept)]

\* Cube(image_list_path, image_mode='spiomm')
CoreCubeInit(lines) ==
    LET read == ManifestLoop(lines, 1, TRUE, <<>>)
    IN IF read.status = "error" THEN InitFailed
       ELSE SortedImageList(read.image_list)

\* FDCube(image_list_path, image_mode='spiomm', no_sort=True)
FDCubeInit(lines) == ManifestLoop(lines, 1, TRUE, <<>>)

CubeConstruct(lines) ==
    /\ fn.name = "none"
    /\ fn' = [name |-> "init", arg |-> lines,
              out |-> IF kind = "FDCube" THEN FDCubeInit(lines)
                      ELSE CoreCubeInit(lines)]
    /\ ToolsUnchanged
    /\ UNCHANGED <<hdf, dest, trace>>

(***************************************************************************)
(* SpecManifest: one cube is constructed from a manifest of 1 .. MaxFiles  *)
(* lines: frame paths numbered 1 .. MaxKey, the bias frame of frame 1,     *)
(* directive lines and blank lines, in any order.                          *)
(***************************************************************************)
ManifestLines ==
    {FrameLine(n) : n \in 1 .. MaxKey}
      \cup {BiasLine(1), DirectiveLine, BlankLine}

Manifests == UNION { [1 .. n -> ManifestLines] : n \in 1 .. MaxFiles }

InitManifest ==
    /\ kind \in {"Cube", "FDCube"}
    /\ IdleCube

NextManifest == \E lines \in Manifests : CubeConstruct(lines)

SpecManifest == InitManifest /\ [][NextManifest]_vars

Occurrences(seq, line) == Cardinality({i \in 1 .. Len(seq) : seq[i] = line})

IsFramePath(line) == line.fits /\ ~line.hash /\ ~line.bias

\* C28: the image list of a cube that was constructed holds the frame
\* paths of the manifest, each as often as the manifest does, and no other
\* line; dimz is the number of frame paths of the manifest.
C28_FramePathsOnly ==
    (fn.name = "init" /\ fn.out.status = "ok")
    => /\ \A line \in ManifestLines :
             Occurrences(fn.out.image_list, line) =
                IF IsFramePath(line) THEN Occurrences(fn.arg, line) ELSE 0
       /\ fn.out.dimz = Len(SelectSeq(fn.arg, IsFramePath))

====
